---- MODULE Spec2Model ----
(***************************************************************************)
(* ReGBA in-application menu (source/opendingux/gui.c): the static menu    *)
(* tree, the navigation loop of ReGBA_Menu, the button-capture loops of    *)
(* GrabButton / GrabButtons, and the settings file codec of                *)
(* ReGBA_SaveSettings / ReGBA_LoadSettings.                                *)
(*                                                                         *)
(* Build modelled: GCW_ZERO and PERFORMANCE_IMPACTING_STATISTICS undefined.*)
(* Text is a sequence of one-character strings.  A button set is the       *)
(* integer bitmask the code uses (bit i is button i of the tables).        *)
(***************************************************************************)
EXTENDS Integers, Sequences, FiniteSets, TLC

VARIABLES
    pc,                \* where the program is: "idle", "menu", "grab_release",
                       \* "grab_press", "grab_accumulate", "drain"
    ActiveMenu,        \* ReGBA_Menu's local ActiveMenu (a menu id or NULL)
    ActiveEntryIndex,  \* struct Menu.ActiveEntryIndex of every menu
    Options,           \* the uint32 globals behind the choice options
    KeypadRemapping,   \* uint32 KeypadRemapping[13]
    Hotkeys,           \* uint32 Hotkeys[]
    ButtonTotal,       \* GrabButton / GrabButtons' local ButtonTotal
    Beyond,            \* how many non-null words the build placed right after
                       \* an entry array that lacks its NULL terminator
    fault,             \* a wild pointer was dereferenced: behaviour undefined
    steps,             \* number of navigation actions taken (bounded by MaxSteps)
    run,               \* history: the current run of consecutive equal actions
    frames,            \* history: the capturing entry, its value before the
                       \* capture and (when recorded) the sets sampled since
                       \* the first press
    file,              \* the lines of the settings file
    ret,               \* what ReGBA_SaveSettings returned ("true", "false"), if
                       \* it ran last ("none" if not)
    io,                \* history: the settings at the last save and whether
                       \* the file is still that save's output
    log,               \* history: what ReGBA_LoadSettings did with each line it
                       \* read, if it ran last
    hooks,             \* struct Menu.InitFunction and .EndFunction of every menu
    called             \* history: the InitFunction and EndFunction calls of
                       \* the last pass of the loop of ReGBA_Menu, in order

vars == <<pc, ActiveMenu, ActiveEntryIndex, Options, KeypadRemapping, Hotkeys,
          ButtonTotal, Beyond, fault, steps, run, frames, file, ret, io, log,
          hooks, called>>

\* What the navigation loop and the captures never write.
persist == <<file, ret, io, log, hooks>>

\* ------------------------------------------------------------------ bounds

\* Navigation actions per run; samples recorded per capture; non-null words
\* after an unterminated entry array.
MaxSteps == 9
MaxFrames == 4
MaxJunk == 1

\* The number of changes made from outside the save and load functions.
MaxChanges == 1

\* The number of lines of a file written by the user.
MaxLines == 2

\* --------------------------------------------------------------- constants

OPENDINGUX_BUTTON_COUNT == 16
OPENDINGUX_BUTTON_FACE_DOWN == 256
KeypadRemappingCount == 13

NULL == "NULL"
JUNK == "JUNK"

KIND_OPTION == "KIND_OPTION"
KIND_SUBMENU == "KIND_SUBMENU"
KIND_DISPLAY == "KIND_DISPLAY"
KIND_CUSTOM == "KIND_CUSTOM"

\* A struct MenuEntry whose initialiser names no member: all members zero
\* (Kind 0 is KIND_OPTION, every function pointer NULL).
NullEntry ==
    [Id |-> "anonymous", Kind |-> KIND_OPTION, PersistentName |-> <<>>,
     Target |-> <<NULL, NULL>>, ChoiceCount |-> 0, Choices |-> <<>>,
     ButtonEnterFunction |-> NULL, ButtonLeftFunction |-> NULL,
     ButtonRightFunction |-> NULL, LoadFunction |-> NULL, SaveFunction |-> NULL,
     DisplayValueFunction |-> NULL]

\* What a read of menu->Entries[i] can yield besides an entry: the NULL
\* pointer, or a non-null word that is no entry of the menu.
NullWord == [NullEntry EXCEPT !.Id = NULL]

JunkWord == [NullEntry EXCEPT !.Id = JUNK]

\* A struct Menu whose initialiser names no member.  Entries holds the
\* initialised elements of the flexible array; Terminated says whether the
\* initialiser ends with the NULL pointer.
NullMenu ==
    [Id |-> NULL, Parent |-> NULL, Entries |-> <<>>, Terminated |-> FALSE,
     ButtonUpFunction |-> NULL, ButtonDownFunction |-> NULL,
     ButtonLeaveFunction |-> NULL, InitFunction |-> NULL, EndFunction |-> NULL]

\* ------------------------------------------------------- the static tree

\* An entry of KIND_DISPLAY: it only draws a statistic.
DisplayEntry(id) == [NullEntry EXCEPT !.Id = id, !.Kind = KIND_DISPLAY]

NativeCodeMenu ==
    [NullMenu EXCEPT !.Id = "NativeCodeMenu", !.Parent = "DebugMenu",
       !.Entries = <<DisplayEntry("NativeCodeMenu_ROPeak"), DisplayEntry("NativeCodeMenu_RWPeak"), DisplayEntry("NativeCodeMenu_ROFlushed"), DisplayEntry("NativeCodeMenu_RWFlushed")>>,
       !.Terminated = TRUE]

DebugMenu_NativeCode ==
    [NullEntry EXCEPT !.Id = "DebugMenu_NativeCode", !.Kind = KIND_SUBMENU, !.Target = <<"Menu", "NativeCodeMenu">>]

MetadataMenu ==
    [NullMenu EXCEPT !.Id = "MetadataMenu", !.Parent = "DebugMenu",
       !.Entries = <<DisplayEntry("MetadataMenu_ROFull"), DisplayEntry("MetadataMenu_RWFull"), DisplayEntry("MetadataMenu_BIOSLastTag"), DisplayEntry("MetadataMenu_EWRAMLastTag"), DisplayEntry("MetadataMenu_IWRAMLastTag"), DisplayEntry("MetadataMenu_VRAMLastTag"), DisplayEntry("MetadataMenu_PartialClears")>>,
       !.Terminated = TRUE]

DebugMenu_Metadata ==
    [NullEntry EXCEPT !.Id = "DebugMenu_Metadata", !.Kind = KIND_SUBMENU, !.Target = <<"Menu", "MetadataMenu">>]

ExecutionMenu ==
    [NullMenu EXCEPT !.Id = "ExecutionMenu", !.Parent = "DebugMenu",
       !.Entries = <<DisplayEntry("ExecutionMenu_SoundUnderruns"), DisplayEntry("ExecutionMenu_FramesEmulated")>>,
       !.Terminated = TRUE]

DebugMenu_Execution ==
    [NullEntry EXCEPT !.Id = "DebugMenu_Execution", !.Kind = KIND_SUBMENU, !.Target = <<"Menu", "ExecutionMenu">>]

ROMInfoMenu ==
    [NullMenu EXCEPT !.Id = "ROMInfoMenu", !.Parent = "DebugMenu",
       !.Entries = <<DisplayEntry("ROMInfoMenu_GameName"), DisplayEntry("ROMInfoMenu_GameCode"), DisplayEntry("ROMInfoMenu_VendorCode")>>,
       !.Terminated = TRUE]

DebugMenu_ROMInfo ==
    [NullEntry EXCEPT !.Id = "DebugMenu_ROMInfo", !.Kind = KIND_SUBMENU, !.Target = <<"Menu", "ROMInfoMenu">>]

DebugMenu ==
    [NullMenu EXCEPT !.Id = "DebugMenu", !.Parent = "MainMenu",
       !.Entries = <<DebugMenu_NativeCode, DebugMenu_Metadata, DebugMenu_Execution, DebugMenu_ROMInfo>>,
       !.Terminated = TRUE]

DisplayMenu_BootSource ==
    [NullEntry EXCEPT !.Id = "DisplayMenu_BootSource", !.Kind = KIND_OPTION,
       !.PersistentName = <<"b", "o", "o", "t", "_", "f", "r", "o", "m">>,
       !.Target = <<"Options", "BootFromBIOS">>,
       !.ChoiceCount = 2,
       !.Choices = <<
           [Pretty |-> <<"C", "a", "r", "t", "r", "i", "d", "g", "e", " ", "R", "O", "M">>, Persistent |-> <<"c", "a", "r", "t", "r", "i", "d", "g", "e">>],
           [Pretty |-> <<"G", "B", "A", " ", "B", "I", "O", "S">>, Persistent |-> <<"g", "b", "a", "_", "b", "i", "o", "s">>] >>]

DisplayMenu_FPSCounter ==
    [NullEntry EXCEPT !.Id = "DisplayMenu_FPSCounter", !.Kind = KIND_OPTION,
       !.PersistentName = <<"f", "p", "s", "_", "c", "o", "u", "n", "t", "e", "r">>,
       !.Target = <<"Options", "ShowFPS">>,
       !.ChoiceCount = 2,
       !.Choices = <<
           [Pretty |-> <<"H", "i", "d", "e">>, Persistent |-> <<"h", "i", "d", "e">>],
           [Pretty |-> <<"S", "h", "o", "w">>, Persistent |-> <<"s", "h", "o", "w">>] >>]

DisplayMenu_ScaleMode ==
    [NullEntry EXCEPT !.Id = "DisplayMenu_ScaleMode", !.Kind = KIND_OPTION,
       !.PersistentName = <<"i", "m", "a", "g", "e", "_", "s", "i", "z", "e">>,
       !.Target = <<"Options", "ScaleMode">>,
       !.ChoiceCount = 3,
       !.Choices = <<
           [Pretty |-> <<"A", "s", "p", "e", "c", "t">>, Persistent |-> <<"a", "s", "p", "e", "c", "t">>],
           [Pretty |-> <<"F", "u", "l", "l">>, Persistent |-> <<"f", "u", "l", "l", "s", "c", "r", "e", "e", "n">>],
           [Pretty |-> <<"N", "o", "n", "e">>, Persistent |-> <<"o", "r", "i", "g", "i", "n", "a", "l">>] >>]

DisplayMenu_Frameskip ==
    [NullEntry EXCEPT !.Id = "DisplayMenu_Frameskip", !.Kind = KIND_OPTION,
       !.PersistentName = <<"f", "r", "a", "m", "e", "s", "k", "i", "p">>,
       !.Target = <<"Options", "UserFrameskip">>,
       !.ChoiceCount = 5,
       !.Choices = <<
           [Pretty |-> <<"A", "u", "t", "o", "m", "a", "t", "i", "c">>, Persistent |-> <<"a", "u", "t", "o">>],
           [Pretty |-> <<"0", " ", "(", "~", "6", "0", " ", "F", "P", "S", ")">>, Persistent |-> <<"0">>],
           [Pretty |-> <<"1", " ", "(", "~", "3", "0", " ", "F", "P", "S", ")">>, Persistent |-> <<"1">>],
           [Pretty |-> <<"2", " ", "(", "~", "2", "0", " ", "F", "P", "S", ")">>, Persistent |-> <<"2">>],
           [Pretty |-> <<"3", " ", "(", "~", "1", "5", " ", "F", "P", "S", ")">>, Persistent |-> <<"3">>] >>]

DisplayMenu_FastForwardTarget ==
    [NullEntry EXCEPT !.Id = "DisplayMenu_FastForwardTarget", !.Kind = KIND_OPTION,
       !.PersistentName = <<"f", "a", "s", "t", "_", "f", "o", "r", "w", "a", "r", "d", "_", "t", "a", "r", "g", "e", "t">>,
       !.Target = <<"Options", "FastForwardTarget">>,
       !.ChoiceCount = 5,
       !.Choices = <<
           [Pretty |-> <<"2", "x", " ", "(", "~", "1", "2", "0", " ", "F", "P", "S", ")">>, Persistent |-> <<"2">>],
           [Pretty |-> <<"3", "x", " ", "(", "~", "1", "8", "0", " ", "F", "P", "S", ")">>, Persistent |-> <<"3">>],
           [Pretty |-> <<"4", "x", " ", "(", "~", "2", "4", "0", " ", "F", "P", "S", ")">>, Persistent |-> <<"4">>],
           [Pretty |-> <<"5", "x", " ", "(", "~", "3", "0", "0", " ", "F", "P", "S", ")">>, Persistent |-> <<"5">>],
           [Pretty |-> <<"6", "x", " ", "(", "~", "3", "6", "0", " ", "F", "P", "S", ")">>, Persistent |-> <<"6">>] >>]

DisplayMenu ==
    [NullMenu EXCEPT !.Id = "DisplayMenu", !.Parent = "MainMenu",
       !.Entries = <<DisplayMenu_BootSource, DisplayMenu_FPSCounter, DisplayMenu_ScaleMode, DisplayMenu_Frameskip, DisplayMenu_FastForwardTarget>>,
       !.Terminated = FALSE]

ButtonMappingMenu_A ==
    [NullEntry EXCEPT !.Id = "ButtonMappingMenu_A", !.Kind = KIND_OPTION,
       !.PersistentName = <<"g", "b", "a", "_", "a">>,
       !.Target = <<"KeypadRemapping", 0>>,
       !.ChoiceCount = 0,
       !.ButtonLeftFunction = "NullLeftFunction", !.ButtonRightFunction = "NullRightFunction",
       !.ButtonEnterFunction = "ActionSetMapping", !.DisplayValueFunction = "DisplayButtonMappingValue",
       !.LoadFunction = "LoadMappingFunction", !.SaveFunction = "SaveMappingFunction"]

ButtonMappingMenu_B ==
    [NullEntry EXCEPT !.Id = "ButtonMappingMenu_B", !.Kind = KIND_OPTION,
       !.PersistentName = <<"g", "b", "a", "_", "b">>,
       !.Target = <<"KeypadRemapping", 1>>,
       !.ChoiceCount = 0,
       !.ButtonLeftFunction = "NullLeftFunction", !.ButtonRightFunction = "NullRightFunction",
       !.ButtonEnterFunction = "ActionSetMapping", !.DisplayValueFunction = "DisplayButtonMappingValue",
       !.LoadFunction = "LoadMappingFunction", !.SaveFunction = "SaveMappingFunction"]

ButtonMappingMenu_Start ==
    [NullEntry EXCEPT !.Id = "ButtonMappingMenu_Start", !.Kind = KIND_OPTION,
       !.PersistentName = <<"g", "b", "a", "_", "s", "t", "a", "r", "t">>,
       !.Target = <<"KeypadRemapping", 3>>,
       !.ChoiceCount = 0,
       !.ButtonLeftFunction = "NullLeftFunction", !.ButtonRightFunction = "NullRightFunction",
       !.ButtonEnterFunction = "ActionSetMapping", !.DisplayValueFunction = "DisplayButtonMappingValue",
       !.LoadFunction = "LoadMappingFunction", !.SaveFunction = "SaveMappingFunction"]

ButtonMappingMenu_Select ==
    [NullEntry EXCEPT !.Id = "ButtonMappingMenu_Select", !.Kind = KIND_OPTION,
       !.PersistentName = <<"g", "b", "a", "_", "s", "e", "l", "e", "c", "t">>,
       !.Target = <<"KeypadRemapping", 2>>,
       !.ChoiceCount = 0,
       !.ButtonLeftFunction = "NullLeftFunction", !.ButtonRightFunction = "NullRightFunction",
       !.ButtonEnterFunction = "ActionSetMapping", !.DisplayValueFunction = "DisplayButtonMappingValue",
       !.LoadFunction = "LoadMappingFunction", !.SaveFunction = "SaveMappingFunction"]

ButtonMappingMenu_L ==
    [NullEntry EXCEPT !.Id = "ButtonMappingMenu_L", !.Kind = KIND_OPTION,
       !.PersistentName = <<"g", "b", "a", "_", "l">>,
       !.Target = <<"KeypadRemapping", 9>>,
       !.ChoiceCount = 0,
       !.ButtonLeftFunction = "NullLeftFunction", !.ButtonRightFunction = "NullRightFunction",
       !.ButtonEnterFunction = "ActionSetMapping", !.DisplayValueFunction = "DisplayButtonMappingValue",
       !.LoadFunction = "LoadMappingFunction", !.SaveFunction = "SaveMappingFunction"]

ButtonMappingMenu_R ==
    [NullEntry EXCEPT !.Id = "ButtonMappingMenu_R", !.Kind = KIND_OPTION,
       !.PersistentName = <<"g", "b", "a", "_", "r">>,
       !.Target = <<"KeypadRemapping", 8>>,
       !.ChoiceCount = 0,
       !.ButtonLeftFunction = "NullLeftFunction", !.ButtonRightFunction = "NullRightFunction",
       !.ButtonEnterFunction = "ActionSetMapping", !.DisplayValueFunction = "DisplayButtonMappingValue",
       !.LoadFunction = "LoadMappingFunction", !.SaveFunction = "SaveMappingFunction"]

ButtonMappingMenu_RapidA ==
    [NullEntry EXCEPT !.Id = "ButtonMappingMenu_RapidA", !.Kind = KIND_OPTION,
       !.PersistentName = <<"r", "a", "p", "i", "d", "_", "a">>,
       !.Target = <<"KeypadRemapping", 10>>,
       !.ChoiceCount = 0,
       !.ButtonLeftFunction = "NullLeftFunction", !.ButtonRightFunction = "NullRightFunction",
       !.ButtonEnterFunction = "ActionSetOrClearMapping", !.DisplayValueFunction = "DisplayButtonMappingValue",
       !.LoadFunction = "LoadMappingFunction", !.SaveFunction = "SaveMappingFunction"]

ButtonMappingMenu_RapidB ==
    [NullEntry EXCEPT !.Id = "ButtonMappingMenu_RapidB", !.Kind = KIND_OPTION,
       !.PersistentName = <<"r", "a", "p", "i", "d", "_", "b">>,
       !.Target = <<"KeypadRemapping", 11>>,
       !.ChoiceCount = 0,
       !.ButtonLeftFunction = "NullLeftFunction", !.ButtonRightFunction = "NullRightFunction",
       !.ButtonEnterFunction = "ActionSetOrClearMapping", !.DisplayValueFunction = "DisplayButtonMappingValue",
       !.LoadFunction = "LoadMappingFunction", !.SaveFunction = "SaveMappingFunction"]

ButtonMappingMenu ==
    [NullMenu EXCEPT !.Id = "ButtonMappingMenu", !.Parent = "MainMenu",
       !.Entries = <<ButtonMappingMenu_A, ButtonMappingMenu_B, ButtonMappingMenu_Start, ButtonMappingMenu_Select, ButtonMappingMenu_L, ButtonMappingMenu_R, ButtonMappingMenu_RapidA, ButtonMappingMenu_RapidB>>,
       !.Terminated = TRUE]

HotkeyMenu_FastForward ==
    [NullEntry EXCEPT !.Id = "HotkeyMenu_FastForward", !.Kind = KIND_OPTION,
       !.PersistentName = <<"h", "o", "t", "k", "e", "y", "_", "f", "a", "s", "t", "_", "f", "o", "r", "w", "a", "r", "d">>,
       !.Target = <<"Hotkeys", 0>>,
       !.ChoiceCount = 0,
       !.ButtonLeftFunction = "NullLeftFunction", !.ButtonRightFunction = "NullRightFunction",
       !.ButtonEnterFunction = "ActionSetOrClearHotkey", !.DisplayValueFunction = "DisplayHotkeyValue",
       !.LoadFunction = "LoadHotkeyFunction", !.SaveFunction = "SaveHotkeyFunction"]

HotkeyMenu ==
    [NullMenu EXCEPT !.Id = "HotkeyMenu", !.Parent = "MainMenu",
       !.Entries = <<HotkeyMenu_FastForward>>,
       !.Terminated = TRUE]

MainMenu_Display ==
    [NullEntry EXCEPT !.Id = "MainMenu_Display", !.Kind = KIND_SUBMENU, !.Target = <<"Menu", "DisplayMenu">>]

MainMenu_ButtonMapping ==
    [NullEntry EXCEPT !.Id = "MainMenu_ButtonMapping", !.Kind = KIND_SUBMENU, !.Target = <<"Menu", "ButtonMappingMenu">>]

MainMenu_Hotkey ==
    [NullEntry EXCEPT !.Id = "MainMenu_Hotkey", !.Kind = KIND_SUBMENU, !.Target = <<"Menu", "HotkeyMenu">>]

MainMenu_Debug ==
    [NullEntry EXCEPT !.Id = "MainMenu_Debug", !.Kind = KIND_SUBMENU, !.Target = <<"Menu", "DebugMenu">>]

MainMenu_Reset ==
    [NullEntry EXCEPT !.Id = "MainMenu_Reset", !.Kind = KIND_CUSTOM, !.ButtonEnterFunction = "ActionReset"]

MainMenu_Return ==
    [NullEntry EXCEPT !.Id = "MainMenu_Return", !.Kind = KIND_CUSTOM, !.ButtonEnterFunction = "ActionReturn"]

MainMenu_Exit ==
    [NullEntry EXCEPT !.Id = "MainMenu_Exit", !.Kind = KIND_CUSTOM, !.ButtonEnterFunction = "ActionExit"]

MainMenu ==
    [NullMenu EXCEPT !.Id = "MainMenu", !.Parent = NULL,
       !.Entries = <<MainMenu_Display, MainMenu_ButtonMapping, MainMenu_Hotkey, MainMenu_Debug, MainMenu_Reset, MainMenu_Return, MainMenu_Exit>>,
       !.Terminated = TRUE]


MenuIds ==
    {"MainMenu", "DisplayMenu", "ButtonMappingMenu", "HotkeyMenu", "DebugMenu",
     "NativeCodeMenu", "MetadataMenu", "ExecutionMenu", "ROMInfoMenu"}

\* Dereference of a struct Menu pointer.
MenuAt(m) ==
    CASE m = "MainMenu" -> MainMenu
      [] m = "DisplayMenu" -> DisplayMenu
      [] m = "ButtonMappingMenu" -> ButtonMappingMenu
      [] m = "HotkeyMenu" -> HotkeyMenu
      [] m = "DebugMenu" -> DebugMenu
      [] m = "NativeCodeMenu" -> NativeCodeMenu
      [] m = "MetadataMenu" -> MetadataMenu
      [] m = "ExecutionMenu" -> ExecutionMenu
      [] m = "ROMInfoMenu" -> ROMInfoMenu

\* The number of initialised, non-null elements of menu->Entries.
EntryCount(m) == Len(MenuAt(m).Entries)

\* The read menu->Entries[i].  Inside the initialiser it is the entry; right
\* after a terminated initialiser it is NULL.  An initialiser without the
\* NULL makes the read run into the object the build placed next: Beyond
\* non-null words (JUNK) and then a zero word.
EntriesWord(m, i) ==
    IF i < EntryCount(m) THEN MenuAt(m).Entries[i + 1]
    ELSE IF MenuAt(m).Terminated THEN NullWord
    ELSE IF i - EntryCount(m) < Beyond THEN JunkWord
    ELSE NullWord

\* ------------------------------------------------------------ button sets

HasBit(n, i) == (n \div (2 ^ i)) % 2 = 1

RECURSIVE OrFrom(_, _, _)
OrFrom(a, b, i) ==
    IF i = OPENDINGUX_BUTTON_COUNT THEN 0
    ELSE (IF HasBit(a, i) \/ HasBit(b, i) THEN 2 ^ i ELSE 0) + OrFrom(a, b, i + 1)

\* a | b on button masks.
BitOr(a, b) == OrFrom(a, b, 0)

\* The buttons the input collaborator reports in this model, by table
\* index: L, B (face down) and A.
PollButtons == {0, 8, 9}

RECURSIVE MaskOf(_)
MaskOf(s) ==
    IF s = {} THEN 0
    ELSE LET i == CHOOSE x \in s : TRUE IN 2 ^ i + MaskOf(s \ {i})

\* The values GetPressedOpenDinguxButtons() can return.
PressedSets == {MaskOf(s) : s \in SUBSET PollButtons}

\* ---------------------------------------------------------------- targets

OptionVars ==
    {"BootFromBIOS", "ShowFPS", "ScaleMode", "UserFrameskip", "FastForwardTarget"}

\* *(uint32_t*) entry->Target
ReadTarget(t) ==
    CASE t[1] = "Options" -> Options[t[2]]
      [] t[1] = "KeypadRemapping" -> KeypadRemapping[t[2]]
      [] t[1] = "Hotkeys" -> Hotkeys[t[2]]

\* A store that fills the whole table of the target with v.
WriteTarget_WholeTable(t, v) ==
    /\ Options' = IF t[1] = "Options" THEN [o \in OptionVars |-> v] ELSE Options
    /\ KeypadRemapping' =
         IF t[1] = "KeypadRemapping" THEN [i \in DOMAIN KeypadRemapping |-> v]
         ELSE KeypadRemapping
    /\ Hotkeys' = IF t[1] = "Hotkeys" THEN [i \in DOMAIN Hotkeys |-> v] ELSE Hotkeys

\* *(uint32_t*) entry->Target = v
WriteTarget(t, v) ==
    /\ Options' = IF t[1] = "Options" THEN [Options EXCEPT ![t[2]] = v] ELSE Options
    /\ KeypadRemapping' =
         IF t[1] = "KeypadRemapping" THEN [KeypadRemapping EXCEPT ![t[2]] = v]
         ELSE KeypadRemapping
    /\ Hotkeys' = IF t[1] = "Hotkeys" THEN [Hotkeys EXCEPT ![t[2]] = v] ELSE Hotkeys

\* The built-in control scheme (DefaultKeypadRemapping, defined by the port's
\* input code): A, B, Select, Start, Right, Left, Up, Down, R, L, no rapid
\* fire, and the menu key.
DefaultKeypadRemapping ==
    [i \in 0..(KeypadRemappingCount - 1) |->
        CASE i = 0 -> 2 ^ 9
          [] i = 1 -> 2 ^ 8
          [] i = 2 -> 2 ^ 7
          [] i = 3 -> 2 ^ 6
          [] i = 4 -> 2 ^ 5
          [] i = 5 -> 2 ^ 4
          [] i = 6 -> 2 ^ 3
          [] i = 7 -> 2 ^ 2
          [] i = 8 -> 2 ^ 1
          [] i = 9 -> 2 ^ 0
          [] i = 10 -> 0
          [] i = 11 -> 0
          [] i = 12 -> 2 ^ 11]

\* ------------------------------------------------- default menu functions

\* The running length of the active run of one kind of action on one object.
RunStep(a, w, v0, v1) ==
    IF run.act = a /\ run.where = w
    THEN [run EXCEPT !.seen = Append(@, v1)]
    ELSE [act |-> a, where |-> w, start |-> v0, seen |-> <<v1>>]

NoRun == [act |-> "none", where |-> NULL, start |-> 0, seen |-> <<>>]

\* The index of the first NULL word of menu->Entries at or after i.
RECURSIVE FirstNull(_, _)
FirstNull(m, i) == IF EntriesWord(m, i).Id = NULL THEN i ELSE FirstNull(m, i + 1)

\* DefaultUpFunction: the new *ActiveMenuEntryIndex.
DefaultUpFunction(m, i) ==
    IF i = 0 THEN FirstNull(m, i) - 1 ELSE i - 1

\* DefaultDownFunction: the new *ActiveMenuEntryIndex.
DefaultDownFunction(m, i) ==
    IF EntriesWord(m, i + 1).Id = NULL THEN 0 ELSE i + 1

\* A DefaultRightFunction that wraps one step late.
DefaultRightFunction_Late(count, v) ==
    IF v + 1 > count THEN 0 ELSE v + 1

\* DefaultRightFunction: the new *Target of an entry with this ChoiceCount.
\* (The increment cannot wrap: no target comes near 2^32 - 1.)
DefaultRightFunction(count, v) ==
    IF v + 1 >= count THEN 0 ELSE v + 1

\* DefaultLeftFunction: the new *Target.  With ChoiceCount 0 and *Target 0
\* the uint32 decrement wraps to 2^32 - 1, written here as -1 (TLC's
\* integers are 32-bit signed); no entry of the tree pairs ChoiceCount 0
\* with the default function.
DefaultLeftFunction(count, v) ==
    (IF v = 0 THEN count ELSE v) - 1

\* A DefaultLeaveFunction that leaves the whole tree.
DefaultLeaveFunction_Exit(m) == NULL

\* A DefaultLeaveFunction that goes from every submenu to the main menu.
DefaultLeaveFunction_ToRoot(m) == IF MenuAt(m).Parent = NULL THEN NULL ELSE "MainMenu"

\* DefaultLeaveFunction: the new *ActiveMenu.
DefaultLeaveFunction(m) == MenuAt(m).Parent

\* DefaultEnterFunction: the new *ActiveMenu.
DefaultEnterFunction(m, e) ==
    IF e.Kind = KIND_SUBMENU THEN e.Target[2] ELSE m

\* ------------------------------------------------------- button capture

\* A DefaultDisplayValueFunction that takes an index equal to ChoiceCount
\* for a valid one.
DefaultDisplayValueFunction_Inclusive(DrawnMenuEntry, ActiveMenuEntry) ==
    LET v == ReadTarget(DrawnMenuEntry.Target)
        IsActive == DrawnMenuEntry = ActiveMenuEntry
    IN IF v <= DrawnMenuEntry.ChoiceCount
       THEN [Value |-> IF v < DrawnMenuEntry.ChoiceCount
                       THEN DrawnMenuEntry.Choices[v + 1].Pretty ELSE <<JUNK>>,
             Error |-> FALSE, ChoiceRead |-> v,
             TextColor |-> IF IsActive THEN "COLOR_ACTIVE_TEXT" ELSE "COLOR_INACTIVE_TEXT",
             OutlineColor |-> IF IsActive THEN "COLOR_ACTIVE_OUTLINE"
                              ELSE "COLOR_INACTIVE_OUTLINE"]
       ELSE [Value |-> <<"O", "u", "t", " ", "o", "f", " ", "b", "o", "u", "n", "d", "s">>,
             Error |-> TRUE, ChoiceRead |-> NULL,
             TextColor |-> "COLOR_ERROR_TEXT", OutlineColor |-> "COLOR_ERROR_OUTLINE"]

\* DefaultDisplayValueFunction on an entry of KIND_OPTION: the text and the
\* colours it hands to the text renderer, and the index at which it read
\* the choice list (NULL when it did not).  The renderer and its width
\* check belong to the port's drawing code.
DefaultDisplayValueFunction(DrawnMenuEntry, ActiveMenuEntry) ==
    LET v == ReadTarget(DrawnMenuEntry.Target)
        IsActive == DrawnMenuEntry = ActiveMenuEntry
    IN IF v < DrawnMenuEntry.ChoiceCount
       THEN [Value |-> DrawnMenuEntry.Choices[v + 1].Pretty,
             Error |-> FALSE, ChoiceRead |-> v,
             TextColor |-> IF IsActive THEN "COLOR_ACTIVE_TEXT" ELSE "COLOR_INACTIVE_TEXT",
             OutlineColor |-> IF IsActive THEN "COLOR_ACTIVE_OUTLINE"
                              ELSE "COLOR_INACTIVE_OUTLINE"]
       ELSE [Value |-> <<"O", "u", "t", " ", "o", "f", " ", "b", "o", "u", "n", "d", "s">>,
             Error |-> TRUE, ChoiceRead |-> NULL,
             TextColor |-> "COLOR_ERROR_TEXT", OutlineColor |-> "COLOR_ERROR_OUTLINE"]

BitCount(t) == Cardinality({i \in 0..(OPENDINGUX_BUTTON_COUNT - 1) : HasBit(t, i)})

\* GrabButton, the body of the accumulation loop: ButtonTotal |= Buttons.
GrabButtonMerge(t, s) == BitOr(t, s)

\* A GrabButtons that keeps, on another path, the buttons that the old and
\* the new set share.
GrabButtonsMerge_Common(t, s) ==
    IF BitOr(s, t) = s THEN BitOr(t, s)
    ELSE IF BitOr(s, t) = t THEN t
    ELSE MaskOf({i \in 0..(OPENDINGUX_BUTTON_COUNT - 1) : HasBit(t, i) /\ HasBit(s, i)})

\* A GrabButtons that accumulates like GrabButton.
GrabButtonsMerge_Union(t, s) == BitOr(t, s)

\* GrabButtons, the body of the accumulation loop (cases a, b, c).
GrabButtonsMerge(t, s) ==
    IF BitOr(s, t) = s THEN BitOr(t, s)
    ELSE IF BitOr(s, t) = t THEN t
    ELSE s

\* An ActionSetMapping that clears the binding, as ActionSetOrClearMapping
\* does.
ActionSetMapping_Clears(old, t) == IF BitCount(t) = 1 THEN t ELSE 0

\* An ActionSetMapping that commits any non-empty set.
ActionSetMapping_AnyBits(old, t) == IF BitCount(t) >= 1 THEN t ELSE old

\* What ActionSetMapping stores, given the target's value and GrabButton's.
ActionSetMapping(old, t) == IF BitCount(t) = 1 THEN t ELSE old

\* An ActionSetOrClearMapping that leaves the target alone, as
\* ActionSetMapping does.
ActionSetOrClearMapping_Keeps(old, t) == IF BitCount(t) = 1 THEN t ELSE old

\* What ActionSetOrClearMapping stores.
ActionSetOrClearMapping(old, t) == IF BitCount(t) = 1 THEN t ELSE 0

\* An ActionSetOrClearHotkey that clears on every set that holds the cancel
\* button.
ActionSetOrClearHotkey_AnyCancel(old, t) ==
    IF BitOr(t, OPENDINGUX_BUTTON_FACE_DOWN) = t THEN 0 ELSE t

\* What ActionSetOrClearHotkey stores.
ActionSetOrClearHotkey(old, t) == IF t = OPENDINGUX_BUTTON_FACE_DOWN THEN 0 ELSE t

CaptureFunctions ==
    {"ActionSetMapping", "ActionSetOrClearMapping", "ActionSetOrClearHotkey"}

ExitFunctions == {"ActionExit", "ActionReturn", "ActionReset"}

NoFrames == [entry |-> NULL, before |-> 0, seq |-> <<>>, done |-> FALSE, on |-> FALSE]

\* ------------------------------------------------------------------- text

\* Text is a sequence of one-character strings; NUL is the byte '\0'.
NUL == "NUL"

UpperCase ==
    <<"A", "B", "C", "D", "E", "F", "G", "H", "I", "J", "K", "L", "M",
      "N", "O", "P", "Q", "R", "S", "T", "U", "V", "W", "X", "Y", "Z">>

LowerCase ==
    <<"a", "b", "c", "d", "e", "f", "g", "h", "i", "j", "k", "l", "m",
      "n", "o", "p", "q", "r", "s", "t", "u", "v", "w", "x", "y", "z">>

\* tolower
ToLower(c) ==
    IF \E k \in 1..26 : UpperCase[k] = c
    THEN LowerCase[CHOOSE k \in 1..26 : UpperCase[k] = c]
    ELSE c

\* strcasecmp(a, b) == 0
StrCaseEq(a, b) ==
    /\ Len(a) = Len(b)
    /\ \A k \in 1..Len(a) : a[k] = b[k] \/ ToLower(a[k]) = ToLower(b[k])

\* ---------------------------------------------- the persistence functions

\* OpenDinguxButtonText; the two face button names come from a header that
\* is not part of the translated source and only ever appear in comments.
OpenDinguxButtonText ==
    <<<<"L">>,
      <<"R">>,
      <<"D", "-", "p", "a", "d", " ", "D", "o", "w", "n">>,
      <<"D", "-", "p", "a", "d", " ", "U", "p">>,
      <<"D", "-", "p", "a", "d", " ", "L", "e", "f", "t">>,
      <<"D", "-", "p", "a", "d", " ", "R", "i", "g", "h", "t">>,
      <<"S", "t", "a", "r", "t">>,
      <<"S", "e", "l", "e", "c", "t">>,
      <<"B">>,
      <<"A">>,
      <<"Y">>,
      <<"X">>,
      <<"A", "n", "a", "l", "o", "g", " ", "D", "o", "w", "n">>,
      <<"A", "n", "a", "l", "o", "g", " ", "U", "p">>,
      <<"A", "n", "a", "l", "o", "g", " ", "L", "e", "f", "t">>,
      <<"A", "n", "a", "l", "o", "g", " ", "R", "i", "g", "h", "t">>>>

OpenDinguxButtonSave ==
    <<"L", "R", "v", "^", "<", ">", "S", "s", "B", "A", "Y", "X", "d", "u", "l", "r">>

\* Value[0], or the terminator of an empty string.
FirstChar(Value) == IF Len(Value) = 0 THEN NUL ELSE Value[1]

\* The first table index whose code is c, or OPENDINGUX_BUTTON_COUNT.
RECURSIVE CodeIndex(_, _)
CodeIndex(c, i) ==
    IF i = OPENDINGUX_BUTTON_COUNT THEN i
    ELSE IF OpenDinguxButtonSave[i + 1] = c THEN i
    ELSE CodeIndex(c, i + 1)

\* A DefaultLoadFunction that falls back to the first choice when no choice
\* matches.
DefaultLoadFunction_FirstOnMiss(e, old, Value) ==
    LET hits == {i \in 0..(e.ChoiceCount - 1) : StrCaseEq(e.Choices[i + 1].Persistent, Value)}
    IN IF hits = {} THEN [value |-> 0, warnings |-> 1]
       ELSE [value |-> CHOOSE i \in hits : \A j \in hits : i <= j, warnings |-> 0]

\* A DefaultLoadFunction that stores the index after the matching choice.
DefaultLoadFunction_OffByOne(e, old, Value) ==
    LET hits == {i \in 0..(e.ChoiceCount - 1) : StrCaseEq(e.Choices[i + 1].Persistent, Value)}
    IN IF hits = {} THEN [value |-> old, warnings |-> 1]
       ELSE [value |-> (CHOOSE i \in hits : \A j \in hits : i <= j) + 1, warnings |-> 0]

\* DefaultLoadFunction: *Target afterwards, old being its value before, and
\* the warnings traced.
DefaultLoadFunction(e, old, Value) ==
    LET hits == {i \in 0..(e.ChoiceCount - 1) : StrCaseEq(e.Choices[i + 1].Persistent, Value)}
    IN IF hits = {} THEN [value |-> old, warnings |-> 1]
       ELSE [value |-> CHOOSE i \in hits : \A j \in hits : i <= j, warnings |-> 0]

\* A LoadMappingFunction that takes every character of the token as a
\* button code, as LoadHotkeyFunction does.
LoadMappingFunction_AllCodes(e, old, Value) ==
    [value |-> IF FirstChar(Value) # "x"
               THEN MaskOf({CodeIndex(Value[j], 0) : j \in 1..Len(Value)}
                             \ {OPENDINGUX_BUTTON_COUNT})
               ELSE 0,
     warnings |-> 0]

\* A LoadMappingFunction that leaves *Target alone when no code matches.
LoadMappingFunction_KeepsOld(e, old, Value) ==
    LET c == FirstChar(Value)
        i == CodeIndex(c, 0)
    IN [value |-> IF c # "x" /\ i < OPENDINGUX_BUTTON_COUNT THEN 2 ^ i ELSE old,
        warnings |-> 0]

\* LoadMappingFunction: *Target afterwards.
LoadMappingFunction(e, old, Value) ==
    LET c == FirstChar(Value)
        i == CodeIndex(c, 0)
    IN [value |-> IF c # "x" /\ i < OPENDINGUX_BUTTON_COUNT THEN 2 ^ i ELSE 0,
        warnings |-> 0]

\* The loop of LoadHotkeyFunction from character k on.
RECURSIVE HotkeyFrom(_, _)
HotkeyFrom(Value, k) ==
    IF k > Len(Value) THEN 0
    ELSE LET i == CodeIndex(Value[k], 0)
         IN BitOr(IF i < OPENDINGUX_BUTTON_COUNT THEN 2 ^ i ELSE 0,
                  HotkeyFrom(Value, k + 1))

\* A loop of LoadHotkeyFunction that ends at the first character that is no
\* button code, and the LoadHotkeyFunction with that loop.
RECURSIVE HotkeyFrom_UpToUnknown(_, _)
HotkeyFrom_UpToUnknown(Value, k) ==
    IF k > Len(Value) \/ CodeIndex(Value[k], 0) = OPENDINGUX_BUTTON_COUNT THEN 0
    ELSE BitOr(2 ^ CodeIndex(Value[k], 0), HotkeyFrom_UpToUnknown(Value, k + 1))

LoadHotkeyFunction_UpToUnknown(e, old, Value) ==
    [value |-> IF FirstChar(Value) # "x" THEN HotkeyFrom_UpToUnknown(Value, 1) ELSE 0,
     warnings |-> 0]

\* LoadHotkeyFunction: *Target afterwards.
LoadHotkeyFunction(e, old, Value) ==
    [value |-> IF FirstChar(Value) # "x" THEN HotkeyFrom(Value, 1) ELSE 0,
     warnings |-> 0]

\* (*LoadFunction)(entry, arg), with the default substituted for NULL.
CallLoad(e, old, Value) ==
    CASE e.LoadFunction = NULL -> DefaultLoadFunction(e, old, Value)
      [] e.LoadFunction = "LoadMappingFunction" -> LoadMappingFunction(e, old, Value)
      [] e.LoadFunction = "LoadHotkeyFunction" -> LoadHotkeyFunction(e, old, Value)

\* DefaultSaveFunction: "%s = %s #%s\n"
DefaultSaveFunction(e) ==
    LET c == e.Choices[ReadTarget(e.Target) + 1]
    IN e.PersistentName \o <<" ", "=", " ">> \o c.Persistent \o <<" ", "#">>
         \o c.Pretty \o <<"\n">>

\* SaveMappingFunction
SaveMappingFunction(e) ==
    LET v == ReadTarget(e.Target)
        one == {i \in 0..(OPENDINGUX_BUTTON_COUNT - 1) : v = 2 ^ i}
        Temp == IF one = {} THEN <<"x", " ", "#", "N", "o", "n", "e">>
                ELSE LET i == CHOOSE x \in one : TRUE
                     IN <<OpenDinguxButtonSave[i + 1], " ", "#">> \o OpenDinguxButtonText[i + 1]
    IN e.PersistentName \o <<" ", "=", " ">> \o Temp \o <<"\n">>

\* The codes of the buttons of v from table index i on.
RECURSIVE CodesFrom(_, _)
CodesFrom(v, i) ==
    IF i = OPENDINGUX_BUTTON_COUNT THEN <<>>
    ELSE (IF HasBit(v, i) THEN <<OpenDinguxButtonSave[i + 1]>> ELSE <<>>)
           \o CodesFrom(v, i + 1)

\* GetButtonsText for a non-zero set, from table index i on.
RECURSIVE ButtonsTextFrom(_, _, _)
ButtonsTextFrom(v, i, AfterFirst) ==
    IF i = OPENDINGUX_BUTTON_COUNT THEN <<>>
    ELSE IF HasBit(v, i)
         THEN (IF AfterFirst THEN <<"+">> ELSE <<>>) \o OpenDinguxButtonText[i + 1]
                \o ButtonsTextFrom(v, i + 1, TRUE)
         ELSE ButtonsTextFrom(v, i + 1, AfterFirst)

\* SaveHotkeyFunction
SaveHotkeyFunction(e) ==
    LET v == ReadTarget(e.Target)
        codes == CodesFrom(v, 0)
        Temp == IF codes = <<>> THEN <<"x", " ", "#", "N", "o", "n", "e">>
                ELSE codes \o <<" ", "#">> \o ButtonsTextFrom(v, 0, FALSE)
    IN e.PersistentName \o <<" ", "=", " ">> \o Temp \o <<"\n">>

\* Menu_SaveOption: the line written for an option entry.
Menu_SaveOption(e) ==
    CASE e.SaveFunction = NULL -> DefaultSaveFunction(e)
      [] e.SaveFunction = "SaveMappingFunction" -> SaveMappingFunction(e)
      [] e.SaveFunction = "SaveHotkeyFunction" -> SaveHotkeyFunction(e)

\* The lines of two parts of a traversal, and whether the second died.
Written(here, rest) == [lines |-> here.lines \o rest.lines, fault |-> rest.fault]

\* Menu_SaveIterateRecurse from entry i of menu m: the lines written, and
\* whether the traversal died.  cur->Kind of a non-null word found beyond the
\* end of an array without a terminator is read through a wild pointer: the
\* process dies there (dies), or the word is passed over.
RECURSIVE Menu_SaveIterateRecurse(_, _, _)
RECURSIVE SaveEntry(_, _, _, _)
RECURSIVE SaveEntry_Submenu(_, _, _, _)
Menu_SaveIterateRecurse(m, i, dies) == SaveEntry(EntriesWord(m, i), m, i, dies)

\* One pass of the loop of Menu_SaveIterateRecurse, on the word cur, and the
\* passes after it.
SaveEntry(cur, m, i, dies) ==
    IF cur.Id = NULL THEN [lines |-> <<>>, fault |-> FALSE]
    ELSE IF cur.Id = JUNK
    THEN IF dies THEN [lines |-> <<>>, fault |-> TRUE]
         ELSE Menu_SaveIterateRecurse(m, i + 1, dies)
    ELSE IF cur.Kind = KIND_SUBMENU
    THEN SaveEntry_Submenu(Menu_SaveIterateRecurse(cur.Target[2], 0, dies), m, i, dies)
    ELSE IF cur.Kind = KIND_OPTION
    THEN Written([lines |-> <<Menu_SaveOption(cur)>>, fault |-> FALSE],
                 Menu_SaveIterateRecurse(m, i + 1, dies))
    ELSE Menu_SaveIterateRecurse(m, i + 1, dies)

\* The KIND_SUBMENU case, after the traversal of the submenu wrote sub.
SaveEntry_Submenu(sub, m, i, dies) ==
    IF sub.fault THEN sub ELSE Written(sub, Menu_SaveIterateRecurse(m, i + 1, dies))

\* Menu_FindByPersistentName from entry i of menu m: the entry found, the
\* null word when there is none, or the junk word when the search died on a
\* wild pointer.
RECURSIVE Menu_FindByPersistentName(_, _, _, _)
RECURSIVE FindEntry(_, _, _, _, _)
RECURSIVE FindEntry_Submenu(_, _, _, _, _)
Menu_FindByPersistentName(m, i, name, dies) ==
    FindEntry(EntriesWord(m, i), m, i, name, dies)

\* One pass of the loop of Menu_FindByPersistentName, on the word cur, and
\* the passes after it.
FindEntry(cur, m, i, name, dies) ==
    IF cur.Id = NULL THEN NullWord
    ELSE IF cur.Id = JUNK
    THEN IF dies THEN JunkWord ELSE Menu_FindByPersistentName(m, i + 1, name, dies)
    ELSE IF cur.Kind = KIND_SUBMENU
    THEN FindEntry_Submenu(Menu_FindByPersistentName(cur.Target[2], 0, name, dies),
                           m, i, name, dies)
    ELSE IF cur.Kind = KIND_OPTION /\ StrCaseEq(cur.PersistentName, name) THEN cur
    ELSE Menu_FindByPersistentName(m, i + 1, name, dies)

\* The KIND_SUBMENU case, after the search of the submenu returned retcode.
FindEntry_Submenu(retcode, m, i, name, dies) ==
    IF retcode.Id # NULL THEN retcode
    ELSE Menu_FindByPersistentName(m, i + 1, name, dies)

\* A FixUpSettings that resets only the slots that are zero.
FixUpSettings_ZeroSlots(k) ==
    [s \in DOMAIN k |-> IF k[s] = 0 THEN DefaultKeypadRemapping[s] ELSE k[s]]

\* FixUpSettings: the keypad table after the fix-up.
FixUpSettings(k) ==
    IF \E s \in (0..9) \cup {12} : k[s] = 0 THEN DefaultKeypadRemapping ELSE k

\* ----------------------------------------------------- the line tokenizer

\* The byte at index i of the buffer; the buffer is modelled up to the last
\* byte ever written to it, and a zero byte follows.
At(b, i) == IF i >= 1 /\ i <= Len(b) THEN b[i] ELSE NUL

\* fgets(line, 256, fd): the line and its terminator over the old contents.
FGets(old, l) ==
    l \o <<NUL>> \o (IF Len(old) > Len(l) + 1 THEN SubSeq(old, Len(l) + 2, Len(old)) ELSE <<>>)

\* The string that starts at index i.
RECURSIVE CStr(_, _)
CStr(b, i) == IF At(b, i) = NUL THEN <<>> ELSE <<b[i]>> \o CStr(b, i + 1)

\* while (*cur == ' ' || *cur == '\t') cur++;
RECURSIVE SkipBlanks(_, _)
SkipBlanks(b, i) == IF At(b, i) \in {" ", "\t"} THEN SkipBlanks(b, i + 1) ELSE i

\* The loop that finds the end of the option name: the index it stops at,
\* or -1 when it reaches a '#', where it continues without advancing.
RECURSIVE NameEnd(_, _)
NameEnd(b, i) ==
    LET c == At(b, i) IN
    IF c = NUL \/ c \in {" ", "\t", "="} THEN i
    ELSE IF c = "#" THEN -1
    ELSE NameEnd(b, i + 1)

\* The loop that finds the end of the option argument: the index of the
\* terminator or of the first '#'.
RECURSIVE ArgEnd(_, _)
ArgEnd(b, i) == IF At(b, i) \in {NUL, "#"} THEN i ELSE ArgEnd(b, i + 1)

\* The loop that clears trailing whitespace backwards from index i.
RECURSIVE StripBack(_, _)
StripBack(b, i) ==
    IF At(b, i) \in {" ", "\t", "\n", "\r"}
    THEN StripBack([b EXCEPT ![i] = NUL], i - 1)
    ELSE b

NoToken(status, b) == [status |-> status, opt |-> <<>>, arg |-> <<>>, buf |-> b]

\* The read loop from the end of the argument loop to the name lookup: the
\* argument loop stopped at index end of b2.
TokenAfterArgument(b2, start, arg, end) ==
    IF end = arg THEN NoToken("skip", b2)
    ELSE [status |-> "ok", opt |-> CStr(b2, start),
          arg |-> CStr(StripBack(b2, end - 1), arg), buf |-> StripBack(b2, end - 1)]

\* The read loop from the start of the option argument, at index arg of b1.
TokenAfterEquals(b1, start, arg, end) ==
    TokenAfterArgument(IF At(b1, end) = "#" THEN [b1 EXCEPT ![end] = NUL] ELSE b1,
                       start, arg, end)

\* The read loop from the end of the name loop, which stopped at index stop
\* of b; eq is where the '=' has to be.
TokenAfterName(b1, start, WasEquals, eq) ==
    IF ~WasEquals /\ At(b1, eq) # "=" THEN NoToken("skip", b1)
    ELSE TokenAfterEquals(b1, start, SkipBlanks(b1, eq + 1),
                          ArgEnd(b1, SkipBlanks(b1, eq + 1)))

\* The read loop from the start of the option name, at index start of b.
TokenFromName(b, start, stop) ==
    IF stop = -1 THEN NoToken("hang", b)
    ELSE IF stop = start THEN NoToken("skip", b)
    ELSE TokenAfterName([b EXCEPT ![stop] = NUL], start, At(b, stop) = "=",
                        IF At(b, stop) = "=" THEN stop
                        ELSE SkipBlanks([b EXCEPT ![stop] = NUL], stop + 1))

\* The body of the read loop of ReGBA_LoadSettings up to the name lookup, on
\* the buffer b: "hang" when the name loop never ends, "skip" where the code
\* continues with the next line, "ok" with the name and the token otherwise.
Tokenize(b) == TokenFromName(b, SkipBlanks(b, 1), NameEnd(b, SkipBlanks(b, 1)))

\* --------------------------------------------------- the settings file

\* io.op is the last operation on the settings or the file, io.fresh whether
\* the file is what the last save wrote, io.snapshot the settings it saved.
NoIo == [op |-> "none", fresh |-> FALSE, snapshot |-> <<>>]

\* The hooks the static tree sets: none.
StaticHooks ==
    [m \in MenuIds |-> [InitFunction |-> MenuAt(m).InitFunction,
                        EndFunction |-> MenuAt(m).EndFunction]]

\* The state of the settings file at construction.
InitFile ==
    /\ file = <<>>
    /\ ret = "none"
    /\ io = NoIo
    /\ log = <<>>

\* The settings file and the hooks at construction.
InitPersist ==
    /\ InitFile
    /\ hooks = StaticHooks
    /\ called = <<>>

\* ------------------------------------------------------ the navigation loop

\* ActiveMenu->Entries[ActiveMenu->ActiveEntryIndex]
ActiveEntry == EntriesWord(ActiveMenu, ActiveEntryIndex[ActiveMenu])

settings == <<Options, KeypadRemapping, Hotkeys>>

\* The loop at construction.
InitLoop ==
    /\ pc = "idle"
    /\ ActiveMenu = NULL
    /\ ActiveEntryIndex = [m \in MenuIds |-> 0]
    /\ ButtonTotal = 0
    /\ Beyond \in 0..MaxJunk
    /\ fault = FALSE
    /\ steps = 0
    /\ run = NoRun
    /\ frames = NoFrames

\* The settings at construction.
InitTables ==
    /\ Options = [o \in OptionVars |-> 0]
    /\ KeypadRemapping = DefaultKeypadRemapping
    /\ Hotkeys = [i \in {0} |-> 0]

Init == InitLoop /\ InitTables /\ InitPersist

\* One more step of the bounded run.
Tick == steps < MaxSteps /\ ~fault /\ steps' = steps + 1

\* A call of a menu's hook, as the history records it.
Call(f, m) == [hook |-> f, menu |-> m]

\* "Possibly finalise this menu and activate and initialise a new one": the
\* calls made at the end of a loop pass that started with PreviousMenu
\* active and made m active, with the EndFunction before the InitFunction.
MenuChange_InitFirst(PreviousMenu, m) ==
    IF m = PreviousMenu THEN <<>>
    ELSE (IF m # NULL /\ hooks[m].InitFunction # NULL
          THEN <<Call("InitFunction", m)>> ELSE <<>>)
         \o (IF hooks[PreviousMenu].EndFunction # NULL
             THEN <<Call("EndFunction", PreviousMenu)>> ELSE <<>>)

MenuChange(PreviousMenu, m) ==
    IF m = PreviousMenu THEN <<>>
    ELSE (IF hooks[PreviousMenu].EndFunction # NULL
          THEN <<Call("EndFunction", PreviousMenu)>> ELSE <<>>)
         \o (IF m # NULL /\ hooks[m].InitFunction # NULL
             THEN <<Call("InitFunction", m)>> ELSE <<>>)

\* The end of a loop pass of ReGBA_Menu: the hooks of a menu change are
\* called, and the loop runs again unless the active menu is NULL.
LoopTo(m) ==
    /\ ActiveMenu' = m
    /\ called' = MenuChange(ActiveMenu, m)
    /\ pc' = IF m = NULL THEN "drain" ELSE "menu"

\* ReGBA_Menu is called: the main menu becomes active and is initialised.
ReGBA_Menu ==
    /\ pc = "idle"
    /\ UNCHANGED persist
    /\ ~fault
    /\ ActiveMenu' = "MainMenu"
    /\ called' = IF hooks["MainMenu"].InitFunction # NULL
                 THEN <<Call("InitFunction", "MainMenu")>> ELSE <<>>
    /\ pc' = "menu"
    /\ run' = NoRun
    /\ frames' = NoFrames
    /\ UNCHANGED <<ActiveEntryIndex, settings, ButtonTotal, Beyond, fault, steps>>

\* A member of the active entry is read through a word that is no entry:
\* the outcome is undefined (the process dies, or the read finds nothing to do).
DerefJunk ==
    /\ \E dies \in BOOLEAN : fault' = dies
    /\ called' = <<>>
    /\ UNCHANGED <<pc, ActiveMenu, ActiveEntryIndex, settings, ButtonTotal, Beyond>>

\* GUI_ACTION_ENTER
ActionEnter ==
    /\ pc = "menu"
    /\ UNCHANGED persist
    /\ Tick
    /\ frames' = IF ActiveEntry.Id # JUNK /\ ActiveEntry.ButtonEnterFunction \in CaptureFunctions
                 THEN [entry |-> ActiveEntry.Id, before |-> ReadTarget(ActiveEntry.Target),
                       seq |-> <<>>, done |-> FALSE, on |-> FALSE]
                 ELSE NoFrames
    /\ run' = NoRun
    /\ IF ActiveEntry.Id = JUNK THEN DerefJunk
       ELSE /\ UNCHANGED <<ActiveEntryIndex, settings, ButtonTotal, Beyond, fault>>
            /\ CASE ActiveEntry.ButtonEnterFunction = NULL ->
                      LoopTo(DefaultEnterFunction(ActiveMenu, ActiveEntry))
                 [] ActiveEntry.ButtonEnterFunction \in ExitFunctions ->
                      LoopTo(NULL)
                 [] ActiveEntry.ButtonEnterFunction \in CaptureFunctions ->
                      /\ pc' = "grab_release"
                      /\ ActiveMenu' = ActiveMenu
                      /\ called' = <<>>

\* GUI_ACTION_LEAVE
ActionLeave ==
    /\ pc = "menu"
    /\ UNCHANGED persist
    /\ Tick
    /\ LoopTo(DefaultLeaveFunction(ActiveMenu))
    /\ run' = RunStep("leave", NULL, ActiveMenu, DefaultLeaveFunction(ActiveMenu))
    /\ frames' = NoFrames
    /\ UNCHANGED <<ActiveEntryIndex, settings, ButtonTotal, Beyond, fault>>

\* GUI_ACTION_UP
ActionUp ==
    /\ pc = "menu"
    /\ UNCHANGED persist
    /\ Tick
    /\ LET i == DefaultUpFunction(ActiveMenu, ActiveEntryIndex[ActiveMenu]) IN
         /\ ActiveEntryIndex' = [ActiveEntryIndex EXCEPT ![ActiveMenu] = i]
         /\ run' = RunStep("up", ActiveMenu, ActiveEntryIndex[ActiveMenu], i)
    /\ LoopTo(ActiveMenu)
    /\ frames' = NoFrames
    /\ UNCHANGED <<settings, ButtonTotal, Beyond, fault>>

\* GUI_ACTION_DOWN
ActionDown ==
    /\ pc = "menu"
    /\ UNCHANGED persist
    /\ Tick
    /\ LET i == DefaultDownFunction(ActiveMenu, ActiveEntryIndex[ActiveMenu]) IN
         /\ ActiveEntryIndex' = [ActiveEntryIndex EXCEPT ![ActiveMenu] = i]
         /\ run' = RunStep("down", ActiveMenu, ActiveEntryIndex[ActiveMenu], i)
    /\ LoopTo(ActiveMenu)
    /\ frames' = NoFrames
    /\ UNCHANGED <<settings, ButtonTotal, Beyond, fault>>

\* The new *Target after the active entry's ButtonLeftFunction.
LeftValue(e) ==
    IF e.ButtonLeftFunction = NULL /\ e.Kind = KIND_OPTION
    THEN DefaultLeftFunction(e.ChoiceCount, ReadTarget(e.Target))
    ELSE ReadTarget(e.Target)

\* A dispatch that runs DefaultRightFunction whatever the entry's
\* ButtonRightFunction is.
RightValue_AlwaysDefault(e) ==
    IF e.Kind = KIND_OPTION
    THEN DefaultRightFunction(e.ChoiceCount, ReadTarget(e.Target))
    ELSE ReadTarget(e.Target)

\* The new *Target after the active entry's ButtonRightFunction.
RightValue(e) ==
    IF e.ButtonRightFunction = NULL /\ e.Kind = KIND_OPTION
    THEN DefaultRightFunction(e.ChoiceCount, ReadTarget(e.Target))
    ELSE ReadTarget(e.Target)

\* Entries whose Target is one of the modelled uint32 settings.
HasSetting(e) == e.Target[1] \in {"Options", "KeypadRemapping", "Hotkeys"}

\* GUI_ACTION_LEFT
ActionLeft ==
    /\ pc = "menu"
    /\ UNCHANGED persist
    /\ Tick
    /\ frames' = NoFrames
    /\ IF ActiveEntry.Id = JUNK THEN DerefJunk /\ run' = NoRun
       ELSE /\ IF HasSetting(ActiveEntry)
               THEN /\ WriteTarget(ActiveEntry.Target, LeftValue(ActiveEntry))
                    /\ run' = RunStep("left", ActiveEntry.Id,
                                      ReadTarget(ActiveEntry.Target), LeftValue(ActiveEntry))
               ELSE UNCHANGED settings /\ run' = NoRun
            /\ LoopTo(ActiveMenu)
            /\ UNCHANGED <<ActiveEntryIndex, ButtonTotal, Beyond, fault>>

\* GUI_ACTION_RIGHT
ActionRight ==
    /\ pc = "menu"
    /\ UNCHANGED persist
    /\ Tick
    /\ frames' = NoFrames
    /\ IF ActiveEntry.Id = JUNK THEN DerefJunk /\ run' = NoRun
       ELSE /\ IF HasSetting(ActiveEntry)
               THEN /\ WriteTarget(ActiveEntry.Target, RightValue(ActiveEntry))
                    /\ run' = RunStep("right", ActiveEntry.Id,
                                      ReadTarget(ActiveEntry.Target), RightValue(ActiveEntry))
               ELSE UNCHANGED settings /\ run' = NoRun
            /\ LoopTo(ActiveMenu)
            /\ UNCHANGED <<ActiveEntryIndex, ButtonTotal, Beyond, fault>>

\* GUI_ACTION_NONE (the switch's default case)
ActionNone ==
    /\ pc = "menu"
    /\ UNCHANGED persist
    /\ Tick
    /\ LoopTo(ActiveMenu)
    /\ run' = NoRun
    /\ frames' = NoFrames
    /\ UNCHANGED <<ActiveEntryIndex, settings, ButtonTotal, Beyond, fault>>

\* The history after the sample s (kept only where frames are recorded).
Sampled(s, last) ==
    [frames EXCEPT !.seq = IF frames.on THEN Append(@, s) ELSE @, !.done = last]

\* A capture without the first loop: the buttons still held from the
\* activation start ButtonTotal.
GrabAwaitRelease_Skipped ==
    /\ pc = "grab_release"
    /\ UNCHANGED persist
    /\ ~fault
    /\ \E s \in PressedSets :
         IF s = 0
         THEN pc' = "grab_press" /\ UNCHANGED <<ButtonTotal, frames>>
         ELSE /\ pc' = "grab_accumulate"
              /\ ButtonTotal' = s
              /\ frames' = Sampled(s, FALSE)
    /\ UNCHANGED <<ActiveMenu, ActiveEntryIndex, settings, Beyond, fault, run, steps,
                   called>>

\* GrabButton / GrabButtons, first loop: wait for the release of the buttons
\* that triggered the action.
GrabAwaitRelease ==
    /\ pc = "grab_release"
    /\ UNCHANGED persist
    /\ ~fault
    /\ \E s \in PressedSets : pc' = IF s # 0 THEN "grab_release" ELSE "grab_press"
    /\ UNCHANGED <<ActiveMenu, ActiveEntryIndex, settings, ButtonTotal, Beyond, fault,
                   run, frames, steps, called>>

\* Second loop: wait until a button is pressed; it starts ButtonTotal.
GrabAwaitPress ==
    /\ pc = "grab_press"
    /\ UNCHANGED persist
    /\ ~fault
    /\ \E s \in PressedSets :
         IF s = 0
         THEN UNCHANGED <<pc, ButtonTotal, frames>>
         ELSE /\ pc' = "grab_accumulate"
              /\ ButtonTotal' = s
              /\ frames' = Sampled(s, FALSE)
    /\ UNCHANGED <<ActiveMenu, ActiveEntryIndex, settings, Beyond, fault, run, steps,
                   called>>

\* The value the capturing entry's ButtonEnterFunction stores once its
\* Grab function has returned t.
Resolve(f, old, t) ==
    CASE f = "ActionSetMapping" -> ActionSetMapping(old, t)
      [] f = "ActionSetOrClearMapping" -> ActionSetOrClearMapping(old, t)
      [] f = "ActionSetOrClearHotkey" -> ActionSetOrClearHotkey(old, t)

\* Third loop: accumulate until all buttons are released, then return
\* ButtonTotal to the ButtonEnterFunction, which stores its result; the loop
\* pass of ReGBA_Menu then ends with the menu unchanged.
GrabAccumulate ==
    /\ pc = "grab_accumulate"
    /\ UNCHANGED persist
    /\ ~fault
    /\ \E s \in PressedSets :
         IF s # 0
         THEN /\ frames.on => Len(frames.seq) < MaxFrames
              /\ ButtonTotal' =
                   IF ActiveEntry.ButtonEnterFunction = "ActionSetOrClearHotkey"
                   THEN GrabButtonsMerge(ButtonTotal, s)
                   ELSE GrabButtonMerge(ButtonTotal, s)
              /\ frames' = Sampled(s, FALSE)
              /\ UNCHANGED <<pc, settings>>
         ELSE /\ WriteTarget(ActiveEntry.Target,
                             Resolve(ActiveEntry.ButtonEnterFunction,
                                     ReadTarget(ActiveEntry.Target), ButtonTotal))
              /\ frames' = Sampled(s, TRUE)
              /\ pc' = "menu"
              /\ UNCHANGED ButtonTotal
    /\ UNCHANGED <<ActiveMenu, ActiveEntryIndex, Beyond, fault, run, steps, called>>

\* A ReGBA_Menu that returns after one poll, whatever it reports.
Drain_ReturnsAtOnce ==
    /\ pc = "drain"
    /\ UNCHANGED persist
    /\ ~fault
    /\ \E s \in PressedSets :
         /\ pc' = "idle"
         /\ run' = [act |-> "drain", where |-> NULL, start |-> 0, seen |-> <<s>>]
    /\ UNCHANGED <<ActiveMenu, ActiveEntryIndex, settings, ButtonTotal, Beyond, fault,
                   frames, steps, called>>

\* After the loop: wait until ReGBA_GetPressedButtons() reports nothing, then
\* return.  The set last polled is kept in run.
Drain ==
    /\ pc = "drain"
    /\ UNCHANGED persist
    /\ ~fault
    /\ \E s \in PressedSets :
         /\ pc' = IF s # 0 THEN "drain" ELSE "idle"
         /\ run' = [act |-> "drain", where |-> NULL, start |-> 0, seen |-> <<s>>]
    /\ UNCHANGED <<ActiveMenu, ActiveEntryIndex, settings, ButtonTotal, Beyond, fault,
                   frames, steps, called>>

\* The draw at the start of a loop pass: DefaultDisplayDataFunction draws
\* the entries of the active menu up to the first NULL word.  In a menu
\* without terminator it reads the members of the word after the array; the
\* pass dies there, or goes on to the action (the actions above).
DefaultDisplayDataFunction ==
    /\ pc = "menu"
    /\ ~fault
    /\ EntriesWord(ActiveMenu, EntryCount(ActiveMenu)).Id = JUNK
    /\ fault' = TRUE
    /\ called' = <<>>
    /\ UNCHANGED <<pc, ActiveMenu, ActiveEntryIndex, settings, ButtonTotal, Beyond,
                   steps, run, frames, persist>>

Next ==
    \/ ReGBA_Menu
    \/ DefaultDisplayDataFunction
    \/ ActionEnter
    \/ ActionLeave
    \/ ActionUp
    \/ ActionDown
    \/ ActionLeft
    \/ ActionRight
    \/ ActionNone
    \/ GrabAwaitRelease
    \/ GrabAwaitPress
    \/ GrabAccumulate
    \/ Drain

Spec == Init /\ [][Next]_vars

\* -------------------------------------------- the loop over a hooked tree

\* No menu of the static tree sets a hook, so the calls of a menu change are
\* exercised over the same tree with hooks installed: in no menu, in every
\* menu, or only the InitFunction or only the EndFunction of every menu.
HookChoices ==
    {[m \in MenuIds |-> [InitFunction |-> i, EndFunction |-> e]] :
        i \in {NULL, "InitFunction"}, e \in {NULL, "EndFunction"}}

InitHooks ==
    /\ InitLoop
    /\ InitTables
    /\ InitFile
    /\ hooks \in HookChoices
    /\ called = <<>>

\* Moving between the menus: the actions that can change the active menu,
\* and those that select the entry to enter.
NextHooks ==
    \/ ReGBA_Menu
    \/ DefaultDisplayDataFunction
    \/ ActionEnter
    \/ ActionLeave
    \/ ActionUp
    \/ ActionDown
    \/ ActionNone
    \/ Drain

SpecHooks == InitHooks /\ [][NextHooks]_vars

\* ------------------------------------- the loop over out-of-band options

\* A write from outside the menu code leaves the global behind a choice
\* option at ChoiceCount or beyond.
OutOfBand ==
    /\ pc = "idle"
    /\ steps < MaxChanges /\ ~fault /\ steps' = steps + 1
    /\ \E k \in 1..EntryCount("DisplayMenu") : \E d \in 0..1 :
         LET e == DisplayMenu.Entries[k] IN
         WriteTarget(e.Target, e.ChoiceCount + d)
    /\ UNCHANGED <<pc, ActiveMenu, ActiveEntryIndex, ButtonTotal, Beyond, fault,
                   run, frames, persist, called>>

NextDisplay ==
    \/ OutOfBand
    \/ ReGBA_Menu
    \/ DefaultDisplayDataFunction
    \/ ActionEnter
    \/ ActionLeave
    \/ ActionLeft
    \/ ActionRight
    \/ Drain

SpecDisplay == Init /\ [][NextDisplay]_vars

\* ----------------------------------------------- capture, taken on its own

\* Every entry of the tree.
AllEntries == UNION {{MenuAt(m).Entries[k] : k \in 1..EntryCount(m)} : m \in MenuIds}

EntryById(id) == CHOOSE e \in AllEntries : e.Id = id

\* The index in MainMenu of the submenu entry that leads to menu m.
IndexInMain(m) ==
    CHOOSE i \in 0..(EntryCount("MainMenu") - 1) :
        /\ MainMenu.Entries[i + 1].Kind = KIND_SUBMENU
        /\ MainMenu.Entries[i + 1].Target[2] = m

\* Values a capturing entry's target can hold when its capture starts.
PriorValues(e) ==
    CASE e.ButtonEnterFunction = "ActionSetMapping" ->
            {DefaultKeypadRemapping[e.Target[2]], 2 ^ 0}
      [] e.ButtonEnterFunction = "ActionSetOrClearMapping" -> {0, 2 ^ 9}
      [] e.ButtonEnterFunction = "ActionSetOrClearHotkey" -> {0, 2 ^ 8 + 2 ^ 0}

\* A capture has just been activated on some entry of the input settings or
\* of the hotkeys menu (ActionEnter on that entry), and its frames are recorded.
InitCapture ==
    \E m \in {"ButtonMappingMenu", "HotkeyMenu"} :
      \E i \in 0..(EntryCount(m) - 1) :
        \E prior \in PriorValues(MenuAt(m).Entries[i + 1]) :
          LET e == MenuAt(m).Entries[i + 1] IN
          /\ pc = "grab_release"
          /\ InitPersist
          /\ ActiveMenu = m
          /\ ActiveEntryIndex =
                [x \in MenuIds |-> IF x = m THEN i
                                   ELSE IF x = "MainMenu" THEN IndexInMain(m) ELSE 0]
          /\ Options = [o \in OptionVars |-> 0]
          /\ KeypadRemapping =
                IF e.Target[1] = "KeypadRemapping"
                THEN [DefaultKeypadRemapping EXCEPT ![e.Target[2]] = prior]
                ELSE DefaultKeypadRemapping
          /\ Hotkeys = [k \in {0} |-> IF e.Target[1] = "Hotkeys" THEN prior ELSE 0]
          /\ ButtonTotal = 0
          /\ Beyond = 0
          /\ fault = FALSE
          /\ steps = 0
          /\ run = NoRun
          /\ frames = [entry |-> e.Id, before |-> prior, seq |-> <<>>,
                       done |-> FALSE, on |-> TRUE]

NextCapture ==
    \/ GrabAwaitRelease
    \/ GrabAwaitPress
    \/ GrabAccumulate

SpecCapture == InitCapture /\ [][NextCapture]_vars

\* ------------------------------------------------ saving and loading settings

\* What char line[257] can hold when ReGBA_LoadSettings is entered: the
\* array is not initialised.
StackGarbage == {<<>>, <<"=", " ", "L", NUL>>}

\* The option names and the tokens of the lines a user writes into the
\* settings file in this model.
WrittenNames ==
    {<<"f", "o", "o">>,
     <<"I", "M", "A", "G", "E", "_", "S", "I", "Z", "E">>,
     <<"g", "b", "a", "_", "a">>}

WrittenTokens ==
    {<<"b", "a", "r">>,
     <<"o", "r", "i", "g", "i", "n", "a", "l">>,
     <<"L">>}

\* The lines a user writes: "name = token\n".
WrittenLines ==
    {n \o <<" ", "=", " ">> \o t \o <<"\n">> : n \in WrittenNames, t \in WrittenTokens}

\* The files a user writes.
WrittenFiles ==
    UNION {[1..n -> WrittenLines] : n \in 1..MaxLines}

\* What reading through the word after an unterminated array can do: the
\* process dies or goes on.  There is such a word only if Beyond is not 0.
WildReads == IF Beyond = 0 THEN {FALSE} ELSE BOOLEAN

\* One more change made from outside the save and load functions.
Change == steps < MaxChanges /\ ~fault /\ steps' = steps + 1

\* What the save and load functions never touch.
menuState == <<ActiveMenu, ActiveEntryIndex, ButtonTotal, Beyond, run, frames,
               hooks, called>>

Touched == [io EXCEPT !.op = "change"]

\* A run of ReGBA_Menu in which the user steps to an entry and presses left
\* once: the GUI_ACTION_LEFT case on that entry.
SessionLeft ==
    /\ pc = "idle"
    /\ Change
    /\ \E e \in AllEntries : HasSetting(e) /\ WriteTarget(e.Target, LeftValue(e))
    /\ io' = Touched
    /\ ret' = "none"
    /\ log' = <<>>
    /\ UNCHANGED <<pc, menuState, fault, file>>

\* The same with right: the GUI_ACTION_RIGHT case.
SessionRight ==
    /\ pc = "idle"
    /\ Change
    /\ \E e \in AllEntries : HasSetting(e) /\ WriteTarget(e.Target, RightValue(e))
    /\ io' = Touched
    /\ ret' = "none"
    /\ log' = <<>>
    /\ UNCHANGED <<pc, menuState, fault, file>>

\* The same with a capture that returns the set t: the GUI_ACTION_ENTER case
\* on an entry of the input settings or of the hotkeys menu.
SessionCapture ==
    /\ pc = "idle"
    /\ Change
    /\ \E e \in AllEntries : \E t \in PressedSets \ {0} :
         /\ e.ButtonEnterFunction \in CaptureFunctions
         /\ WriteTarget(e.Target, Resolve(e.ButtonEnterFunction, ReadTarget(e.Target), t))
    /\ io' = Touched
    /\ ret' = "none"
    /\ log' = <<>>
    /\ UNCHANGED <<pc, menuState, fault, file>>

\* The user replaces the settings file.
EditFile ==
    /\ pc = "idle"
    /\ Change
    /\ file' \in WrittenFiles
    /\ io' = [io EXCEPT !.op = "edit", !.fresh = FALSE]
    /\ ret' = "none"
    /\ log' = <<>>
    /\ UNCHANGED <<pc, menuState, settings, fault>>

\* A ReGBA_SaveSettings whose failed FILE_OPEN has emptied the file.
ReGBA_SaveSettings_Truncates ==
    /\ pc = "idle"
    /\ ~fault
    /\ \E ok \in BOOLEAN : \E dies \in WildReads :
         IF ok
         THEN \E r \in {Menu_SaveIterateRecurse("MainMenu", 0, dies)} :
              /\ file' = r.lines
              /\ fault' = r.fault
              /\ ret' = IF r.fault THEN ret ELSE "true"
              /\ io' = [op |-> "save", fresh |-> TRUE, snapshot |-> settings]
         ELSE /\ ret' = "false"
              /\ file' = <<>>
              /\ UNCHANGED <<fault, io>>
    /\ log' = <<>>
    /\ UNCHANGED <<pc, menuState, settings, steps>>

\* ReGBA_SaveSettings.  The name length check and FILE_OPEN fail or succeed
\* (ok); a failure returns false and writes nothing.  FILE_OPEN for writing
\* empties the file, and a traversal that dies leaves what it had written.
ReGBA_SaveSettings ==
    /\ pc = "idle"
    /\ ~fault
    /\ \E ok \in BOOLEAN : \E dies \in WildReads :
         IF ok
         THEN \E r \in {Menu_SaveIterateRecurse("MainMenu", 0, dies)} :
              /\ file' = r.lines
              /\ fault' = r.fault
              /\ ret' = IF r.fault THEN ret ELSE "true"
              /\ io' = [op |-> "save", fresh |-> TRUE, snapshot |-> settings]
         ELSE /\ ret' = "false"
              /\ UNCHANGED <<file, fault, io>>
    /\ log' = <<>>
    /\ UNCHANGED <<pc, menuState, settings, steps>>

\* The three settings tables as one value, for the passes of the read loop.
Tables == [Options |-> Options, KeypadRemapping |-> KeypadRemapping, Hotkeys |-> Hotkeys]

\* The read loop of ReGBA_LoadSettings from line k of the file f on, with the
\* buffer b and the tables S: the tables at the end, how the loop ended
\* ("eof", "hang" in the name loop, "died" on a wild pointer in the lookup,
\* "null" on the NULL entry) and what was done with each line.
RECURSIVE ReadLoop(_, _, _, _, _, _)
RECURSIVE ReadLine(_, _, _, _, _, _)
RECURSIVE ReadEntry(_, _, _, _, _, _, _)
RECURSIVE ReadValue(_, _, _, _, _, _, _, _)
ReadLoop(f, k, b, S, dies, done) ==
    IF k > Len(f) THEN [tables |-> S, end |-> "eof", log |-> done]
    ELSE ReadLine(f, Tokenize(FGets(b, f[k])), k, S, dies, done)

\* One pass, after the tokenizer.
ReadLine(f, t, k, S, dies, done) ==
    IF t.status = "hang"
    THEN [tables |-> S, end |-> "hang",
          log |-> Append(done, [status |-> "hang", opt |-> <<>>, arg |-> <<>>,
                                entry |-> NULL, warnings |-> 0, old |-> 0, new |-> 0])]
    ELSE IF t.status = "skip"
    THEN ReadLoop(f, k + 1, t.buf, S, dies,
                  Append(done, [status |-> "skipped", opt |-> <<>>, arg |-> <<>>,
                                entry |-> NULL, warnings |-> 0, old |-> 0, new |-> 0]))
    ELSE ReadEntry(f, Menu_FindByPersistentName("MainMenu", 0, t.opt, dies), t, k, S, dies, done)

\* One pass, after the lookup.  A NULL entry is traced and then dereferenced.
ReadEntry(f, entry, t, k, S, dies, done) ==
    IF entry.Id = JUNK
    THEN [tables |-> S, end |-> "died",
          log |-> Append(done, [status |-> "died", opt |-> t.opt, arg |-> t.arg,
                                entry |-> NULL, warnings |-> 0, old |-> 0, new |-> 0])]
    ELSE IF entry.Id = NULL
    THEN [tables |-> S, end |-> "null",
          log |-> Append(done, [status |-> "unknown", opt |-> t.opt, arg |-> t.arg,
                                entry |-> NULL, warnings |-> 1, old |-> 0, new |-> 0])]
    ELSE ReadValue(f, CallLoad(entry, S[entry.Target[1]][entry.Target[2]], t.arg),
                   entry, t, k, S, dies, done)

\* A pass that runs FixUpSettings after each line, not once after the loop.
ReadValue_FixUpEachLine(f, r, entry, t, k, S, dies, done) ==
    ReadLoop(f, k + 1, t.buf,
             [[S EXCEPT ![entry.Target[1]][entry.Target[2]] = r.value]
                 EXCEPT !.KeypadRemapping = FixUpSettings(@)], dies,
             Append(done, [status |-> "loaded", opt |-> t.opt, arg |-> t.arg,
                           entry |-> entry.Id, warnings |-> r.warnings,
                           old |-> S[entry.Target[1]][entry.Target[2]],
                           new |-> r.value]))

\* One pass, after the load function.
ReadValue(f, r, entry, t, k, S, dies, done) ==
    ReadLoop(f, k + 1, t.buf,
             [S EXCEPT ![entry.Target[1]][entry.Target[2]] = r.value], dies,
             Append(done, [status |-> "loaded", opt |-> t.opt, arg |-> t.arg,
                           entry |-> entry.Id, warnings |-> r.warnings,
                           old |-> S[entry.Target[1]][entry.Target[2]],
                           new |-> r.value]))

\* ReGBA_LoadSettings.  The name length check fails (named = FALSE) and the
\* function returns at once, or FILE_OPEN fails (ok = FALSE), a warning is
\* traced and only FixUpSettings runs, or the read loop runs on a buffer
\* that holds garbage at first, and FixUpSettings after it.
ReGBA_LoadSettings ==
    /\ pc = "idle"
    /\ ~fault
    /\ \E named \in BOOLEAN : \E ok \in BOOLEAN : \E dies \in WildReads :
         \E garbage \in StackGarbage :
           \E r \in {IF named /\ ok THEN ReadLoop(file, 1, garbage, Tables, dies, <<>>)
                     ELSE [tables |-> Tables, end |-> "eof", log |-> <<>>]} :
             /\ pc' = IF r.end = "hang" THEN "hung" ELSE pc
             /\ fault' = (r.end \in {"died", "null"})
             /\ Options' = r.tables.Options
             /\ Hotkeys' = r.tables.Hotkeys
             /\ KeypadRemapping' =
                  IF named /\ r.end = "eof" THEN FixUpSettings(r.tables.KeypadRemapping)
                  ELSE r.tables.KeypadRemapping
             /\ log' = r.log
             /\ io' = [io EXCEPT !.op = IF named /\ ok THEN "load" ELSE "change"]
    /\ ret' = "none"
    /\ UNCHANGED <<menuState, steps, file>>

NextPersist ==
    \/ SessionLeft
    \/ SessionRight
    \/ SessionCapture
    \/ EditFile
    \/ ReGBA_SaveSettings
    \/ ReGBA_LoadSettings

SpecPersist == Init /\ [][NextPersist]_vars

\* ------------------------------------------- loading a file someone wrote

\* Lines of a settings file: well-formed ones, and the irregular ones the
\* read loop has code for.
SettingsLines ==
    {
     \* the unbound code
     <<"g", "b", "a", "_", "a", " ", "=", " ", "x", "\n">>,
     \* a character that is no button code
     <<"g", "b", "a", "_", "a", " ", "=", " ", "?", "\n">>,
     \* two button codes in a single-button field
     <<"g", "b", "a", "_", "b", " ", "=", " ", "L", "A", "\n">>,
     \* a blank token
     <<"g", "b", "a", "_", "a", " ", "=", "\n">>,
     \* a comment-only line
     <<"#", " ", "c", "\n">>,
     \* a hotkey with a character that is no code
     <<"h", "o", "t", "k", "e", "y", "_", "f", "a", "s", "t", "_", "f", "o", "r", "w", "a", "r", "d", " ", "=", " ", "L", "?", "A", "\n">>,
     \* a hotkey token that starts with the unbound code
     <<"h", "o", "t", "k", "e", "y", "_", "f", "a", "s", "t", "_", "f", "o", "r", "w", "a", "r", "d", " ", "=", " ", "x", "L", "\n">>,
     \* the empty hotkey
     <<"h", "o", "t", "k", "e", "y", "_", "f", "a", "s", "t", "_", "f", "o", "r", "w", "a", "r", "d", " ", "=", " ", "x", "\n">>,
     \* a name and a token in another case
     <<"I", "m", "a", "g", "e", "_", "S", "i", "z", "e", " ", "=", " ", "O", "R", "I", "G", "I", "N", "A", "L", "\n">>,
     \* an unknown name
     <<"f", "o", "o", " ", "=", " ", "b", "a", "r", "\n">>
    }

\* The files read: up to MaxLines of these lines.
SettingsFiles == UNION {[1..n -> SettingsLines] : n \in 1..MaxLines}

\* The tables before the load: the defaults, or bindings that captures have
\* stored (GBA B on L, rapid-fire A on A, the hotkey on B + L).
LoadedOver ==
    {[KeypadRemapping |-> DefaultKeypadRemapping, Hotkeys |-> [i \in {0} |-> 0]],
     [KeypadRemapping |-> [DefaultKeypadRemapping EXCEPT ![1] = 2 ^ 0, ![10] = 2 ^ 9],
      Hotkeys |-> [i \in {0} |-> 2 ^ 8 + 2 ^ 0]]}

InitSettings ==
    /\ InitLoop
    /\ Options = [o \in OptionVars |-> 0]
    /\ \E t \in LoadedOver : KeypadRemapping = t.KeypadRemapping /\ Hotkeys = t.Hotkeys
    /\ hooks = StaticHooks
    /\ called = <<>>
    /\ file \in SettingsFiles
    /\ ret = "none"
    /\ io = NoIo
    /\ log = <<>>

NextSettings ==
    \/ ReGBA_SaveSettings
    \/ ReGBA_LoadSettings

SpecSettings == InitSettings /\ [][NextSettings]_vars

\* --------------------------------------------- the layout of a line

\* One setting written with different blanks and comments, lines without an
\* '=', and lines for an option that takes its value from a choice list.
LayoutLines ==
    {
     \* the plain layout
     <<"g", "b", "a", "_", "b", " ", "=", " ", "L", "\n">>,
     \* blanks and tabs before the name, around '=' and after the token, and
     \* a comment
     <<" ", "\t", "g", "b", "a", "_", "b", "\t", "=", " ", " ", "L", " ", "\t", "#", " ", "c", "\n">>,
     \* no blank at all
     <<"g", "b", "a", "_", "b", "=", "L", "\n">>,
     \* a name alone, on a last line that has no newline
     <<"g", "b", "a", "_", "a">>,
     \* a name and a blank
     <<"g", "b", "a", "_", "a", " ", "\n">>,
     \* a token that is none of the choices
     <<"i", "m", "a", "g", "e", "_", "s", "i", "z", "e", " ", "=", " ", "b", "a", "r", "\n">>,
     \* a token that is the second choice, in another case
     <<"i", "m", "a", "g", "e", "_", "s", "i", "z", "e", " ", "=", " ", "F", "u", "l", "l", "S", "c", "r", "e", "e", "n", "\n">>
    }

\* The state before the load: a file of up to MaxLines of these lines, of
\* which fgets returns only the last one without a newline, over the
\* tables of LoadedOver and an image size of 0 or 2.
InitLayout ==
    /\ InitLoop
    /\ \E v \in {0, 2} : Options = [[o \in OptionVars |-> 0] EXCEPT !["ScaleMode"] = v]
    /\ \E t \in LoadedOver : KeypadRemapping = t.KeypadRemapping /\ Hotkeys = t.Hotkeys
    /\ hooks = StaticHooks
    /\ called = <<>>
    /\ file \in {f \in UNION {[1..n -> LayoutLines] : n \in 1..MaxLines} :
                   \A k \in 1..(Len(f) - 1) : f[k][Len(f[k])] = "\n"}
    /\ ret = "none"
    /\ io = NoIo
    /\ log = <<>>

SpecLayout == InitLayout /\ [][NextSettings]_vars

\* ------------------------------------------------------------- properties

\* The set of buttons of a mask, and helpers over histories.
Bits(x) == {i \in 0..(OPENDINGUX_BUTTON_COUNT - 1) : HasBit(x, i)}

Range(seq) == {seq[k] : k \in 1..Len(seq)}

Last(seq) == seq[Len(seq)]

\* The three-way rule of the hotkey capture, over sets: the total after the
\* first n samples of seq.
RECURSIVE RuleTotal(_, _)
RuleTotal(seq, n) ==
    IF n = 1 THEN Bits(seq[1])
    ELSE LET T == RuleTotal(seq, n - 1)
             S == Bits(seq[n])
         IN IF T \subseteq S THEN S
            ELSE IF S \subseteq T THEN T
            ELSE S

\* The samples of a recorded capture that were not the final empty one.
Pressed(seq) == IF seq # <<>> /\ Last(seq) = 0 THEN SubSeq(seq, 1, Len(seq) - 1) ELSE seq

\* C3: in the hotkey capture (GrabButtons) the running total follows the
\* three-way rule on every sample (superset: take the sample; subset: keep
\* the total; otherwise: take the sample); so {A},{A,B},{A,B,C},{B,C},{}
\* resolves to {A,B,C} and {A},{B},{} resolves to {B}.
C3_MergeRule ==
    (frames.on /\ frames.entry = "HotkeyMenu_FastForward" /\ frames.seq # <<>>) =>
        /\ Bits(ButtonTotal) = RuleTotal(Pressed(frames.seq), Len(Pressed(frames.seq)))
        /\ \A a, b, c \in PollButtons :
             (a # b /\ b # c /\ a # c) =>
               /\ (frames.seq = <<2 ^ a, 2 ^ a + 2 ^ b, 2 ^ a + 2 ^ b + 2 ^ c, 2 ^ b + 2 ^ c, 0>>
                     => ButtonTotal = 2 ^ a + 2 ^ b + 2 ^ c)
               /\ (frames.seq = <<2 ^ a, 2 ^ b, 0>> => ButtonTotal = 2 ^ b)

\* C3 witness: the five-frame example has been sampled and resolved.
C3_Witness ==
    /\ frames.on /\ frames.done /\ frames.entry = "HotkeyMenu_FastForward"
    /\ frames.seq = <<2 ^ 9, 2 ^ 9 + 2 ^ 8, 2 ^ 9 + 2 ^ 8 + 2 ^ 0, 2 ^ 8 + 2 ^ 0, 0>>
    /\ ButtonTotal = 2 ^ 9 + 2 ^ 8 + 2 ^ 0
    /\ Hotkeys[0] = 2 ^ 9 + 2 ^ 8 + 2 ^ 0

\* C4: the single-binding capture (GrabButton) returns the union of every
\* sampled set, and ActionSetMapping stores it if and only if it is one
\* button; otherwise the target keeps its value.  {A},{A,B},{} and
\* {A},{B},{} change nothing; {A},{} commits A.
C4_SingleCapture ==
    (frames.on /\ frames.done
       /\ EntryById(frames.entry).ButtonEnterFunction = "ActionSetMapping") =>
        LET e == EntryById(frames.entry)
            u == UNION {Bits(x) : x \in Range(frames.seq)}
        IN /\ Bits(ButtonTotal) = u
           /\ ReadTarget(e.Target) = IF Cardinality(u) = 1 THEN MaskOf(u) ELSE frames.before
           /\ \A a, b \in PollButtons :
                a # b =>
                  /\ (frames.seq = <<2 ^ a, 2 ^ a + 2 ^ b, 0>>
                        => ReadTarget(e.Target) = frames.before)
                  /\ (frames.seq = <<2 ^ a, 2 ^ b, 0>>
                        => ReadTarget(e.Target) = frames.before)
                  /\ (frames.seq = <<2 ^ a, 0>> => ReadTarget(e.Target) = 2 ^ a)

\* C4 witness: {A},{A,B},{} has been captured for GBA A and changed nothing.
C4_Witness ==
    /\ frames.on /\ frames.done /\ frames.entry = "ButtonMappingMenu_A"
    /\ frames.seq = <<2 ^ 8, 2 ^ 8 + 2 ^ 0, 0>>
    /\ frames.before = 2 ^ 9
    /\ KeypadRemapping[0] = 2 ^ 9

\* C5: whenever the loop is running, the active menu's ActiveEntryIndex
\* refers to a real (non-sentinel) entry of that menu.
C5_ActiveEntryIsReal ==
    (pc = "menu" /\ ~fault) => ActiveEntryIndex[ActiveMenu] < EntryCount(ActiveMenu)

\* C6: N consecutive default down (or up) actions in a menu with N entries
\* return to the starting index and visit every entry once; a single up
\* from 0 goes to N - 1 and a single down from N - 1 goes to 0.
C6_WrapAround ==
    (run.act \in {"up", "down"} /\ run.start < EntryCount(run.where)) =>
        LET N == EntryCount(run.where) IN
        /\ (Len(run.seen) = N =>
              /\ Last(run.seen) = run.start
              /\ Range(run.seen) = 0..(N - 1))
        /\ (run.act = "up" /\ run.start = 0 => run.seen[1] = N - 1)
        /\ (run.act = "down" /\ run.start = N - 1 => run.seen[1] = 0)

\* Entries that use the default left, right and load functions on a choice list.
DefaultOptions ==
    {e \in AllEntries :
        /\ e.Kind = KIND_OPTION /\ e.ChoiceCount >= 1
        /\ e.ButtonLeftFunction = NULL /\ e.ButtonRightFunction = NULL
        /\ e.LoadFunction = NULL}

\* C7: on an option entry with C >= 1 choices, C consecutive default right
\* (or left) actions return to the starting index and visit every index
\* exactly once.
C7_OptionCycling ==
    (run.act \in {"left", "right"} /\ EntryById(run.where) \in DefaultOptions
       /\ run.start < EntryById(run.where).ChoiceCount) =>
        LET C == EntryById(run.where).ChoiceCount IN
        /\ Len(run.seen) <= C => Cardinality(Range(run.seen)) = Len(run.seen)
        /\ Range(run.seen) \subseteq 0..(C - 1)
        /\ (Len(run.seen) = C => Last(run.seen) = run.start)

\* C7 witness: five right actions on the five-choice frame skipping option.
C7_Witness ==
    /\ run.act = "right" /\ run.where = "DisplayMenu_Frameskip"
    /\ Len(run.seen) = 5
    /\ Options["UserFrameskip"] = run.start

\* The number of menus from m up to the root (the root has depth 1).
RECURSIVE Depth(_)
Depth(m) == IF MenuAt(m).Parent = NULL THEN 1 ELSE 1 + Depth(MenuAt(m).Parent)

\* C9: the loop runs exactly while the active menu is not NULL; a leave at
\* the root makes it NULL; a run of leave actions from a menu of depth d
\* makes it NULL with the d-th action and not before.
C9_LeaveTerminates ==
    /\ (ActiveMenu = NULL) <=> (pc \in {"idle", "drain"})
    /\ run.act = "leave" =>
         /\ Len(run.seen) <= Depth(run.start)
         /\ \A k \in 1..Len(run.seen) : (run.seen[k] = NULL) <=> (k = Depth(run.start))
         /\ ActiveMenu = Last(run.seen)

\* C9 witness: three leave actions from a menu of depth 3 have ended the loop.
C9_Witness ==
    /\ run.act = "leave" /\ run.start = "NativeCodeMenu"
    /\ Len(run.seen) = 3
    /\ ActiveMenu = NULL /\ pc = "drain"

\* C10: when an action of the loop makes a different non-null menu active,
\* that menu's active entry index is 0 when the loop runs again.
C10_IndexResetOnMenuChange ==
    [][(pc = "menu" /\ pc' = "menu" /\ ActiveMenu' # ActiveMenu)
          => ActiveEntryIndex'[ActiveMenu'] = 0]_vars

\* C1: saving the settings and loading the written lines back gives every
\* target the value it had at the save: the save traversal runs to its end,
\* and a load of the file it wrote runs to its end and leaves the settings
\* equal to the saved ones.
C1_SaveLoadRoundTrip ==
    /\ io.op = "save" => ~fault
    /\ (io.op = "load" /\ io.fresh) =>
          (~fault /\ pc = "idle" /\ settings = io.snapshot)

\* C2: a well-formed line whose name matches no option entry changes no
\* target, records exactly one warning, invokes no load operation, and the
\* load goes on to the next line.
C2_UnknownKeyIgnored ==
    \A k \in 1..Len(log) :
        log[k].status = "unknown" =>
            /\ ~fault
            /\ log[k].warnings = 1
            /\ log[k].entry = NULL
            /\ log[k].old = log[k].new
            /\ (k < Len(file) => Len(log) > k)

C11_HookOrdering ==
    [][pc = "menu" =>
         LET End == IF hooks[ActiveMenu].EndFunction # NULL
                    THEN <<[hook |-> "EndFunction", menu |-> ActiveMenu]>> ELSE <<>>
             New == IF ActiveMenu' # NULL /\ hooks[ActiveMenu'].InitFunction # NULL
                    THEN <<[hook |-> "InitFunction", menu |-> ActiveMenu']>> ELSE <<>>
         IN /\ ActiveMenu' = ActiveMenu => called' = <<>>
            /\ ActiveMenu' # ActiveMenu => called' = End \o New
            /\ ActiveMenu' = NULL =>
                  /\ pc' = "drain"
                  /\ \A k \in 1..Len(called') : called'[k].hook # "InitFunction"]_vars

\* C11 witness: entering the display settings from the main menu has called
\* the main menu's EndFunction and then the display menu's InitFunction.
C11_Witness ==
    /\ pc = "menu" /\ ActiveMenu = "DisplayMenu"
    /\ called = <<[hook |-> "EndFunction", menu |-> "MainMenu"],
                  [hook |-> "InitFunction", menu |-> "DisplayMenu"]>>

\* The buttons whose code in the settings file is the character c.
Coded(c) == {i \in 0..(OPENDINGUX_BUTTON_COUNT - 1) : OpenDinguxButtonSave[i + 1] = c}

\* Whether the text l starts with the text p.
StartsWith(l, p) == Len(l) >= Len(p) /\ SubSeq(l, 1, Len(p)) = p

\* C12: SaveMappingFunction writes the token x for a target of 0;
\* LoadMappingFunction stores 0 for the token x and for any token whose
\* first character is no button code, and the bit of the one button whose
\* code is the first character otherwise, whatever follows it.
C12_UnboundEncoding ==
    /\ \A k \in 1..Len(log) :
          (log[k].status = "loaded"
             /\ EntryById(log[k].entry).LoadFunction = "LoadMappingFunction") =>
            LET c == IF log[k].arg = <<>> THEN NUL ELSE log[k].arg[1] IN
            /\ (c = "x" \/ Coded(c) = {}) => log[k].new = 0
            /\ Coded(c) # {} => (Cardinality(Coded(c)) = 1 /\ log[k].new = MaskOf(Coded(c)))
    /\ (io.op = "save" /\ ~fault) =>
          \A e \in AllEntries :
            (e.SaveFunction = "SaveMappingFunction" /\ ReadTarget(e.Target) = 0) =>
              \E k \in 1..Len(file) :
                StartsWith(file[k], e.PersistentName \o <<" ", "=", " ", "x", " ", "#">>)

\* C12 witness: the token x has unbound GBA A, and a token of two codes has
\* bound GBA B to the first.
C12_Witness ==
    /\ Len(log) = 2
    /\ log[1].entry = "ButtonMappingMenu_B" /\ log[1].arg = <<"L", "A">> /\ log[1].new = 2 ^ 0
    /\ log[2].entry = "ButtonMappingMenu_A" /\ log[2].arg = <<"x">>
    /\ log[2].old # 0 /\ log[2].new = 0

\* The keypad table the lines of a finished load left, before the fix-up:
\* for each slot the value the last line for it stored, or else the value
\* the slot had before the load.
LinesLoaded(before, done) ==
    [s \in DOMAIN before |->
        LET on == {k \in 1..Len(done) :
                     /\ done[k].status = "loaded"
                     /\ EntryById(done[k].entry).Target = <<"KeypadRemapping", s>>}
        IN IF on = {} THEN before[s]
           ELSE done[CHOOSE k \in on : \A j \in on : j <= k].new]

\* The slots FixUpSettings looks at.
CheckedSlots == (0..9) \cup {12}

\* C13: when ReGBA_LoadSettings has consumed all lines, if any of the
\* checked slots (0 to 9 and 12) is zero, every slot of the table, the
\* rapid-fire slots 10 and 11 included, equals the built-in default; if none
\* is zero the table is exactly what the lines loaded; so after the load
\* every checked slot is non-zero.
C13_FixUpAllOrNothing ==
    [][(io'.op = "load" /\ ~fault' /\ pc' = "idle" /\ log' # <<>> /\ Len(log') = Len(file)) =>
         LET T == LinesLoaded(KeypadRemapping, log') IN
         /\ (\E s \in CheckedSlots : T[s] = 0) => KeypadRemapping' = DefaultKeypadRemapping
         /\ (\A s \in CheckedSlots : T[s] # 0) => KeypadRemapping' = T
         /\ \A s \in CheckedSlots : KeypadRemapping'[s] # 0]_vars

\* C13 witness: a load has bound GBA B to L and then unbound GBA A, and the
\* whole table is back at the default, GBA B included.
C13_Witness ==
    /\ io.op = "load" /\ ~fault /\ pc = "idle" /\ Len(log) = 2
    /\ log[1].status = "loaded" /\ log[1].entry = "ButtonMappingMenu_B" /\ log[1].new = 2 ^ 0
    /\ log[2].status = "loaded" /\ log[2].entry = "ButtonMappingMenu_A" /\ log[2].new = 0
    /\ KeypadRemapping = DefaultKeypadRemapping
    /\ DefaultKeypadRemapping[1] # 2 ^ 0

\* The option entries of the tree under menu m from its k-th entry on, in
\* pre-order: an entry in list order, the entries of a submenu at the place
\* of the submenu entry.
RECURSIVE OptionsFrom(_, _)
OptionsFrom(m, k) ==
    IF k > EntryCount(m) THEN <<>>
    ELSE LET e == MenuAt(m).Entries[k] IN
         (CASE e.Kind = KIND_SUBMENU -> OptionsFrom(e.Target[2], 1)
            [] e.Kind = KIND_OPTION -> <<e>>
            [] OTHER -> <<>>)
         \o OptionsFrom(m, k + 1)

\* C14: ReGBA_SaveSettings walks the whole tree to its end and writes
\* exactly one line per option entry reachable from the main menu, in
\* pre-order, and nothing for the other entries.
C14_SaveTraversal ==
    io.op = "save" =>
        LET L == OptionsFrom("MainMenu", 1) IN
        /\ ~fault
        /\ Len(file) = Len(L)
        /\ \A k \in 1..Len(L) :
              StartsWith(file[k], L[k].PersistentName \o <<" ", "=", " ">>)

C16_LookupFirstOption ==
    \A k \in 1..Len(log) :
        log[k].status \in {"loaded", "unknown", "died"} =>
            LET L == OptionsFrom("MainMenu", 1)
                hits == {i \in 1..Len(L) : StrCaseEq(L[i].PersistentName, log[k].opt)}
            IN /\ log[k].status # "died"
               /\ log[k].entry = IF hits = {} THEN NULL
                                 ELSE L[CHOOSE i \in hits : \A j \in hits : i <= j].Id

\* The buttons whose codes occur in the token t.
CodedIn(t) == UNION {Coded(t[j]) : j \in 1..Len(t)}

\* C17 as stated: LoadHotkeyFunction stores, for every token, the buttons
\* whose codes occur in it, characters that are no code adding nothing
\* wherever they stand; the token x alone gives the empty set.
C17_HotkeyLoad_AsStated ==
    \A k \in 1..Len(log) :
        (log[k].status = "loaded"
           /\ EntryById(log[k].entry).LoadFunction = "LoadHotkeyFunction") =>
            /\ log[k].new = MaskOf(CodedIn(log[k].arg))
            /\ log[k].arg = <<"x">> => log[k].new = 0

\* C17 amended: for a token that does not start with x, LoadHotkeyFunction
\* stores the buttons whose codes occur in it, characters that are no code
\* adding nothing wherever they stand; for a token that starts with x,
\* alone or followed by anything, it stores the empty set.
C17_HotkeyLoad ==
    \A k \in 1..Len(log) :
        (log[k].status = "loaded"
           /\ EntryById(log[k].entry).LoadFunction = "LoadHotkeyFunction") =>
            log[k].new = IF log[k].arg # <<>> /\ log[k].arg[1] = "x" THEN 0
                         ELSE MaskOf(CodedIn(log[k].arg))

\* C17 witness: the token L?A has set the hotkey to L + A over another
\* value, and the token xL after it has emptied the hotkey.
C17_Witness ==
    /\ Len(log) = 2
    /\ log[1].entry = "HotkeyMenu_FastForward" /\ log[1].arg = <<"L", "?", "A">>
    /\ log[1].old = 2 ^ 8 + 2 ^ 0 /\ log[1].new = 2 ^ 9 + 2 ^ 0
    /\ log[2].entry = "HotkeyMenu_FastForward" /\ log[2].arg = <<"x", "L">>
    /\ log[2].new = 0 /\ Hotkeys[0] = 0

\* C18: a line for a single-button entry whose token is neither the
\* unbound code x nor starts with a button code is ignored: the entry's
\* target keeps the value it had before the line was read.
C18_InvalidRemapIgnored ==
    \A k \in 1..Len(log) :
        (log[k].status = "loaded"
           /\ EntryById(log[k].entry).LoadFunction = "LoadMappingFunction"
           /\ log[k].arg # <<>> /\ log[k].arg[1] # "x" /\ Coded(log[k].arg[1]) = {}) =>
            log[k].new = log[k].old

\* C19: a line whose name is an option's and whose token is blank calls no
\* load function and changes no target.
C19_BlankTokenSkipped ==
    \A k \in 1..Len(log) :
        log[k].status = "loaded" => log[k].arg # <<>>

\* C20: ReGBA_LoadSettings gets through the tokenizing of every line, lines
\* with a '#' at the start or inside the name included: the loop that finds
\* the end of the name ends.
C20_LoadTerminates ==
    /\ pc # "hung"
    /\ \A k \in 1..Len(log) : log[k].status # "hang"

\* The layouts of the line gba_b = L.
C21_SameSetting ==
    {l \in LayoutLines : \E k \in 1..Len(l) : l[k] = "b" /\ At(l, k + 1) # "a"}

\* C21: lines that differ only in the blanks before the name, around '='
\* and after the token, and in a trailing comment, give the same name and
\* token and store the same value; a line with no '=' after the name is
\* skipped and changes nothing.
C21_LayoutTolerance ==
    \A k \in 1..Len(log) :
        /\ file[k] \in C21_SameSetting =>
              /\ log[k].status \in {"loaded", "died"}
              /\ log[k].opt = <<"g", "b", "a", "_", "b">>
              /\ log[k].arg = <<"L">>
              /\ log[k].status = "loaded" => log[k].new = 2 ^ 0
        /\ (\A j \in 1..Len(file[k]) : file[k][j] # "=") =>
              log[k].status = "skipped"

\* The orderings of the lines of a file whose lines differ.
C22_Orderings(f) == {g \in [1..Len(f) -> Range(f)] : Range(g) = Range(f)}

\* C22: when ReGBA_LoadSettings has read to its end a file of up to MaxLines
\* lines that name pairwise distinct known options, the tables it leaves, FixUpSettings
\* included, are those that the read loop and FixUpSettings give from the
\* same tables for every other ordering of the lines that is read to the end.
C22_OrderIndependent ==
    [][(/\ log' # <<>>
        /\ Len(log') = Len(file)
        /\ Len(file) <= MaxLines
        /\ pc' = "idle"
        /\ ~fault'
        /\ \A k \in 1..Len(log') : log'[k].status = "loaded"
        /\ \A j, k \in 1..Len(log') : j # k => log'[j].entry # log'[k].entry)
       => \A g \in C22_Orderings(file) : \A garbage \in StackGarbage : \A dies \in WildReads :
            \A r \in {ReadLoop(g, 1, garbage, Tables, dies, <<>>)} :
              r.end = "eof" =>
                 /\ Options' = r.tables.Options
                 /\ Hotkeys' = r.tables.Hotkeys
                 /\ KeypadRemapping' = FixUpSettings(r.tables.KeypadRemapping)]_vars

\* Two lines that name different options have been loaded, the second of
\* them zeroing a slot that the first one does not name.
C22_Witness ==
    /\ pc = "idle"
    /\ ~fault
    /\ Len(log) = 2
    /\ log[1].status = "loaded" /\ log[1].entry = "ButtonMappingMenu_B"
    /\ log[1].new = 2 ^ 0 /\ log[1].old # 2 ^ 0
    /\ log[2].status = "loaded" /\ log[2].entry = "ButtonMappingMenu_A"
    /\ log[2].new = 0
    /\ KeypadRemapping = DefaultKeypadRemapping

\* C23: a capture goes through its phases in order: it waits until a sample
\* is empty, then until a sample is non-empty, then accumulates until a
\* sample is empty, and only then is the target written; the samples of the
\* first phase are in no way part of the result, which is non-empty and made
\* of buttons sampled since the first press.
C23_CapturePhases ==
    [][/\ pc = "grab_release" =>
            /\ pc' \in {"grab_release", "grab_press"}
            /\ UNCHANGED <<settings, ButtonTotal, frames>>
       /\ pc = "grab_press" =>
            /\ pc' \in {"grab_press", "grab_accumulate"}
            /\ UNCHANGED settings
            /\ pc' = "grab_press" => UNCHANGED <<ButtonTotal, frames>>
            /\ pc' = "grab_accumulate" =>
                  ButtonTotal' # 0 /\ frames'.seq = <<ButtonTotal'>>
       /\ pc = "grab_accumulate" =>
            /\ pc' \in {"grab_accumulate", "menu"}
            /\ ButtonTotal' # 0
            /\ Bits(ButtonTotal') \subseteq UNION {Bits(x) : x \in Range(frames'.seq)}
            /\ pc' = "grab_accumulate" =>
                  UNCHANGED settings /\ Last(frames'.seq) # 0
            /\ pc' = "menu" =>
                  /\ Last(frames'.seq) = 0
                  /\ ButtonTotal' = ButtonTotal
                  /\ frames'.done]_vars

\* A capture for GBA B has gone through the three phases and stored L.
C23_Witness ==
    /\ pc = "menu"
    /\ frames.on /\ frames.done /\ frames.entry = "ButtonMappingMenu_B"
    /\ frames.seq = <<2 ^ 0, 0>>
    /\ frames.before # 2 ^ 0
    /\ ButtonTotal = 2 ^ 0
    /\ KeypadRemapping[1] = 2 ^ 0

\* C24: ActionSetOrClearHotkey stores the empty set when GrabButtons returns
\* exactly the cancel button (B, the lower face button), and what it returns
\* otherwise; the hotkey is never left as the cancel button alone, and a
\* combination that holds the cancel button and others is stored.
C24_HotkeyClear ==
    (frames.on /\ frames.done
       /\ EntryById(frames.entry).ButtonEnterFunction = "ActionSetOrClearHotkey") =>
        /\ Bits(ButtonTotal) = {8} => Hotkeys[0] = 0
        /\ Bits(ButtonTotal) # {8} => Hotkeys[0] = ButtonTotal
        /\ Bits(Hotkeys[0]) # {8}

\* The hotkey was B + L, the capture returned B alone and cleared it.
C24_Witness ==
    /\ frames.on /\ frames.done /\ frames.entry = "HotkeyMenu_FastForward"
    /\ frames.before = 2 ^ 8 + 2 ^ 0
    /\ frames.seq = <<2 ^ 8, 0>>
    /\ ButtonTotal = 2 ^ 8
    /\ Hotkeys[0] = 0

\* C25: ActionSetOrClearMapping stores the resolved set when it is exactly
\* one button and the empty binding otherwise, whatever the target held.
C25_SetOrClear ==
    (frames.on /\ frames.done
       /\ EntryById(frames.entry).ButtonEnterFunction = "ActionSetOrClearMapping") =>
        LET e == EntryById(frames.entry)
        IN /\ Cardinality(Bits(ButtonTotal)) = 1 => ReadTarget(e.Target) = ButtonTotal
           /\ Cardinality(Bits(ButtonTotal)) # 1 => ReadTarget(e.Target) = 0

\* Rapid-fire B was on A, the capture returned two buttons and cleared it.
C25_Witness ==
    /\ frames.on /\ frames.done /\ frames.entry = "ButtonMappingMenu_RapidB"
    /\ frames.before = 2 ^ 9
    /\ frames.seq = <<2 ^ 0, 2 ^ 0 + 2 ^ 8, 0>>
    /\ KeypadRemapping[11] = 0

\* C26: whatever captures, loads and fix-up passes have run, every remap
\* target of the menu holds no button or exactly one, and so did every remap
\* target that a save has met.
C26_SingleBitRemap ==
    ~fault =>
      \A e \in {x \in AllEntries : x.LoadFunction = "LoadMappingFunction"} :
        /\ Cardinality(Bits(ReadTarget(e.Target))) <= 1
        /\ io.op = "save" => Cardinality(Bits(io.snapshot[2][e.Target[2]])) <= 1

\* A capture has put rapid-fire A on B, and the table has been saved with
\* that binding.
C26_Witness ==
    /\ ~fault
    /\ steps = 1
    /\ io.op = "save"
    /\ ret = "true"
    /\ io.snapshot[2][10] = 2 ^ 8
    /\ KeypadRemapping[10] = 2 ^ 8
    /\ DefaultKeypadRemapping[10] # 2 ^ 8

\* The token t is the choice token at position i of the entry e, case
\* aside: the same length, and each character the same letter.
C27_Matches(e, i, t) ==
    LET c == e.Choices[i + 1].Persistent
    IN /\ Len(c) = Len(t)
       /\ \A j \in 1..Len(t) : ToLower(c[j]) = ToLower(t[j])

\* C27: when DefaultLoadFunction gets a token that is none of the entry's
\* choice tokens, case aside, the target keeps its index and one warning is
\* traced; when the token is one of them, the index becomes the position of
\* the first such choice and no warning is traced.
C27_UnmatchedToken ==
    \A k \in 1..Len(log) :
        (log[k].status = "loaded" /\ EntryById(log[k].entry).LoadFunction = NULL) =>
            LET e == EntryById(log[k].entry)
                hits == {i \in 0..(e.ChoiceCount - 1) : C27_Matches(e, i, log[k].arg)}
            IN /\ hits = {} => log[k].new = log[k].old /\ log[k].warnings = 1
               /\ hits # {} =>
                     /\ log[k].new \in hits
                     /\ \A i \in hits : log[k].new <= i
                     /\ log[k].warnings = 0

\* The image size was 2; a line with a token that is no choice left it at 2
\* with a warning, and the next line, with the second choice in another
\* case, set it to 1.
C27_Witness ==
    /\ pc = "idle"
    /\ ~fault
    /\ Len(log) = 2
    /\ log[1].entry = "DisplayMenu_ScaleMode"
    /\ log[1].arg = <<"b", "a", "r">>
    /\ log[1].old = 2 /\ log[1].new = 2 /\ log[1].warnings = 1
    /\ log[2].entry = "DisplayMenu_ScaleMode"
    /\ log[2].old = 2 /\ log[2].new = 1 /\ log[2].warnings = 0
    /\ Options["ScaleMode"] = 1

\* C28: the entry list of every menu ends with the NULL pointer, so that a
\* walk over a menu's entries ends right after its last entry.
C28_EntryListsTerminated ==
    \A m \in MenuIds :
        /\ MenuAt(m).Terminated
        /\ FirstNull(m, 0) = EntryCount(m)

\* C29: ReGBA_Menu returns only from the loop that follows the menu loop,
\* with the active menu NULL, and only on a poll that reports no button; as
\* long as the polls report a button it stays in that loop, and the first
\* poll that reports none makes it return, nothing else having changed.
C29_InputDrain ==
    [][/\ (pc # "idle" /\ pc' = "idle") => pc = "drain"
       /\ pc = "drain" =>
            /\ ActiveMenu = NULL
            /\ pc' \in {"drain", "idle"}
            /\ run'.act = "drain" /\ Len(run'.seen) = 1
            /\ (pc' = "idle") <=> (run'.seen = <<0>>)
            /\ UNCHANGED <<ActiveMenu, ActiveEntryIndex, settings>>]_vars

\* The menu loop has ended and the last poll reported B: ReGBA_Menu has not
\* returned.
C29_Witness ==
    /\ pc = "drain"
    /\ ActiveMenu = NULL
    /\ run.act = "drain"
    /\ run.seen = <<2 ^ 8>>

\* C30: every remap and hotkey entry is an option with ChoiceCount 0 whose
\* left and right functions are the empty overrides, and a left or right
\* action on such an entry leaves every setting as it was, whatever the
\* entry's target holds: the default decrement and increment are not run.
C30_OverridesReplaceDefaults ==
    [][/\ \A e \in AllEntries :
            e.ButtonEnterFunction \in CaptureFunctions =>
               /\ e.Kind = KIND_OPTION /\ e.ChoiceCount = 0
               /\ e.ButtonLeftFunction = "NullLeftFunction"
               /\ e.ButtonRightFunction = "NullRightFunction"
       /\ (run' # run /\ run'.act \in {"left", "right"}
             /\ EntryById(run'.where).ButtonEnterFunction \in CaptureFunctions) =>
               /\ UNCHANGED settings
               /\ Last(run'.seen) = ReadTarget(EntryById(run'.where).Target)]_vars

\* A capture has put GBA A on L, and a right action on that entry has left
\* it there.
C30_Witness ==
    /\ pc = "menu"
    /\ run.act = "right"
    /\ run.where = "ButtonMappingMenu_A"
    /\ run.start = 2 ^ 0
    /\ run.seen = <<2 ^ 0>>
    /\ KeypadRemapping[0] = 2 ^ 0
    /\ DefaultKeypadRemapping[0] # 2 ^ 0

\* C31: a ReGBA_SaveSettings that cannot open the file returns false, and
\* leaves the file and every setting as they were; a ReGBA_LoadSettings
\* that cannot open the file calls no load function, returns, and leaves
\* every setting as it was but for what FixUpSettings does: the keypad
\* table is reset as a whole, and only if a checked slot was zero.
C31_IoFailure ==
    [][/\ (ret' = "false" /\ ~fault') =>
            /\ UNCHANGED <<file, settings, io, pc>>
            /\ log' = <<>>
       /\ (io'.op = "change" /\ ret' = "none") =>
            /\ log' = <<>>
            /\ ~fault'
            /\ pc' = "idle"
            /\ UNCHANGED <<file, Options, Hotkeys>>
            /\ \/ KeypadRemapping' = KeypadRemapping
               \/ /\ \E s \in (0..9) \cup {12} : KeypadRemapping[s] = 0
                  /\ KeypadRemapping' = DefaultKeypadRemapping]_vars

\* A load and then a save have failed to open the file, over bindings that
\* captures had stored: the file and the bindings are as they were.
C31_Witness ==
    /\ pc = "idle"
    /\ ~fault
    /\ io.op = "change"
    /\ ret = "false"
    /\ log = <<>>
    /\ Len(file) = MaxLines
    /\ KeypadRemapping[1] = 2 ^ 0
    /\ Hotkeys[0] = 2 ^ 8 + 2 ^ 0

\* C32 as stated: from the first press of a hotkey capture on, during the
\* accumulation and at its end, ButtonTotal is the pressed set of one of the
\* samples, and is never the union of two samples neither of which holds
\* the other; in the captures of GrabButton it is the union of all samples.
C32_TotalIsOneSample_AsStated ==
    (frames.on /\ frames.seq # <<>>) =>
        LET samples == Range(Pressed(frames.seq))
        IN IF EntryById(frames.entry).ButtonEnterFunction = "ActionSetOrClearHotkey"
           THEN /\ ButtonTotal \in samples
                /\ \A a, b \in samples :
                      (BitOr(a, b) # a /\ BitOr(a, b) # b) => ButtonTotal # BitOr(a, b)
           ELSE Bits(ButtonTotal) = UNION {Bits(x) : x \in samples}

\* C32 amended: ButtonTotal is the pressed set of one of the samples, and
\* is the union of two samples neither of which holds the other only when
\* that union is itself the pressed set of a sample; in the captures of
\* GrabButton it is the union of all samples.
C32_TotalIsOneSample ==
    (frames.on /\ frames.seq # <<>>) =>
        LET samples == Range(Pressed(frames.seq))
        IN IF EntryById(frames.entry).ButtonEnterFunction = "ActionSetOrClearHotkey"
           THEN /\ ButtonTotal \in samples
                /\ \A a, b \in samples :
                      (BitOr(a, b) # a /\ BitOr(a, b) # b /\ BitOr(a, b) \notin samples)
                        => ButtonTotal # BitOr(a, b)
           ELSE Bits(ButtonTotal) = UNION {Bits(x) : x \in samples}

\* A hotkey capture has sampled A, then L, then A + L together, and has
\* resolved to A + L, the set of the third sample.
C32_Witness ==
    /\ frames.on /\ frames.done /\ frames.entry = "HotkeyMenu_FastForward"
    /\ frames.seq = <<2 ^ 9, 2 ^ 0, 2 ^ 9 + 2 ^ 0, 0>>
    /\ ButtonTotal = 2 ^ 9 + 2 ^ 0
    /\ Hotkeys[0] = 2 ^ 9 + 2 ^ 0

\* C33: the menu having been entered with every slot that FixUpSettings
\* checks non-zero, each of these slots is non-zero after any actions and
\* captures; a remap entry whose target is zero is a rapid-fire one, whose
\* slot FixUpSettings does not check.
C33_RequiredControlsStayBound ==
    /\ \A s \in (0..9) \cup {12} : KeypadRemapping[s] # 0
    /\ \A e \in AllEntries :
         (e.Target[1] = "KeypadRemapping" /\ ReadTarget(e.Target) = 0) =>
            /\ e.Target[2] \in {10, 11}
            /\ e.ButtonEnterFunction = "ActionSetOrClearMapping"

\* A capture for GBA Select has returned two buttons and has left the
\* binding as it was.
C33_Witness ==
    /\ pc = "menu"
    /\ frames.done
    /\ frames.entry = "ButtonMappingMenu_Select"
    /\ ButtonTotal = 2 ^ 8 + 2 ^ 0
    /\ KeypadRemapping[2] = frames.before
    /\ KeypadRemapping[2] # 0

\* The menus that the submenu entries of the menus of S lead to, and so on.
RECURSIVE C34_Reachable(_)
C34_Reachable(S) ==
    LET Sub(m) == {k \in 1..EntryCount(m) : MenuAt(m).Entries[k].Kind = KIND_SUBMENU}
        T == S \cup UNION {{MenuAt(m).Entries[k].Target[2] : k \in Sub(m)} : m \in S}
    IN IF T = S THEN S ELSE C34_Reachable(T)

\* C34: the menu that a submenu entry leads to has the menu of that entry
\* as its Parent, the main menu is the only menu whose Parent is NULL, and
\* every menu is reached from the main menu through submenu entries; an
\* enter that changes the active menu goes to a menu from which leave comes
\* back, and a leave that does not end the loop goes to a menu with a
\* submenu entry for the menu left.
C34_ParentLinks ==
    [][/\ \A m \in MenuIds : (MenuAt(m).Parent = NULL) <=> (m = "MainMenu")
       /\ C34_Reachable({"MainMenu"}) = MenuIds
       /\ \A m \in MenuIds : \A k \in 1..EntryCount(m) :
            MenuAt(m).Entries[k].Kind = KIND_SUBMENU =>
               MenuAt(MenuAt(m).Entries[k].Target[2]).Parent = m
       /\ (pc = "menu" /\ pc' = "menu" /\ ActiveMenu' # ActiveMenu /\ run' = NoRun) =>
            /\ ActiveEntry.Kind = KIND_SUBMENU
            /\ ActiveMenu' = ActiveEntry.Target[2]
            /\ DefaultLeaveFunction(ActiveMenu') = ActiveMenu
       /\ (run' # run /\ run'.act = "leave" /\ ActiveMenu' # NULL) =>
            \E k \in 1..EntryCount(ActiveMenu') :
               /\ MenuAt(ActiveMenu').Entries[k].Kind = KIND_SUBMENU
               /\ MenuAt(ActiveMenu').Entries[k].Target[2] = ActiveMenu]_vars

\* The native code menu was entered from the debugging menu, and one leave
\* has made the debugging menu active again.
C34_Witness ==
    /\ pc = "menu"
    /\ run.act = "leave"
    /\ run.start = "NativeCodeMenu"
    /\ run.seen = <<"DebugMenu">>
    /\ ActiveMenu = "DebugMenu"
    /\ MenuAt("DebugMenu").Entries[ActiveEntryIndex["DebugMenu"] + 1].Target[2] = "NativeCodeMenu"

\* Every setting other than the one at the target t keeps its value.
C35_OtherTargetsKept(t) ==
    /\ \A o \in OptionVars :
         (t[1] = "Options" /\ t[2] = o) \/ Options'[o] = Options[o]
    /\ \A i \in DOMAIN KeypadRemapping :
         (t[1] = "KeypadRemapping" /\ t[2] = i) \/ KeypadRemapping'[i] = KeypadRemapping[i]
    /\ \A i \in DOMAIN Hotkeys :
         (t[1] = "Hotkeys" /\ t[2] = i) \/ Hotkeys'[i] = Hotkeys[i]

\* C35: an up or a down action changes only the active entry index of the
\* active menu, and neither a setting nor the active menu; a left or a right
\* action changes at most the target of the active entry, and neither the
\* active menu nor an active entry index; a none action, and an enter on an
\* entry of kind KIND_DISPLAY, change nothing.
C35_NavigationFrame ==
    [][/\ (ActionUp \/ ActionDown) =>
            /\ ActiveMenu' = ActiveMenu
            /\ UNCHANGED <<settings, file, ButtonTotal>>
            /\ \A m \in MenuIds \ {ActiveMenu} : ActiveEntryIndex'[m] = ActiveEntryIndex[m]
       /\ (ActionLeft \/ ActionRight) =>
            /\ ActiveMenu' = ActiveMenu
            /\ UNCHANGED <<ActiveEntryIndex, file, ButtonTotal>>
            /\ C35_OtherTargetsKept(ActiveEntry.Target)
       /\ (ActionNone \/ (ActionEnter /\ ActiveEntry.Kind = KIND_DISPLAY)) =>
            UNCHANGED <<pc, ActiveMenu, ActiveEntryIndex, settings, file, ButtonTotal, fault>>]_vars

\* In the display menu, after a down, one left has changed the option of the
\* entry that is now active, and every other setting has its first value.
C35_Witness ==
    /\ pc = "menu"
    /\ ActiveMenu = "DisplayMenu"
    /\ ActiveEntryIndex["DisplayMenu"] = 1
    /\ ActiveEntryIndex["MainMenu"] = 0
    /\ run.act = "left"
    /\ run.where = ActiveEntry.Id
    /\ Len(run.seen) = 1
    /\ Options[ActiveEntry.Target[2]] # run.start
    /\ \A o \in OptionVars \ {ActiveEntry.Target[2]} : Options[o] = 0
    /\ KeypadRemapping = DefaultKeypadRemapping
    /\ Hotkeys[0] = 0

====
